---- MODULE Spec2Model ----
(***************************************************************************)
(* Order lifecycle, cart, stock and discount handling of the electronics   *)
(* store (src/models.py, src/routes.py).  The in-memory dictionaries of    *)
(* models.py are the variables; every Flask route that touches them is an  *)
(* action, parameterised by the session user and the request inputs.       *)
(***************************************************************************)
EXTENDS Integers, Sequences, FiniteSets, TLC

\* ---------------------------------------------------------------- bounds
\* orders created (ids handed out) in a run
MaxOrders == 2
\* largest quantity a cart update asks for
MaxQty == 2
\* stock of each product of the initial catalogue
InitStock == 2
\* requests carried out in a run (rejected requests are not counted)
MaxRequests == 4
\* minutes the clock advances in a run
MaxNow == 6

\* ---------------------------------------------------------------- universe
Admins == {"a"}
Vendors == {"v1", "v2"}
Customers == {"c1", "c2"}
UserIds == Admins \cup Vendors \cup Customers

\* models.users: id -> User (only the role matters to the order lifecycle)
users == [u \in UserIds |->
            [role |-> IF u \in Admins THEN "admin"
                      ELSE IF u \in Vendors THEN "vendor" ELSE "customer"]]

get_user_by_id(u) == users[u]

ProductIds == {"p1", "p2"}
\* iteration order of the products / cart dictionaries
ProductOrder == <<"p1", "p2">>
OrderIds == 1..MaxOrders
Statuses == {"pending", "receipt_pending", "admin_review", "approved",
             "delivered", "cancelled"}
\* status path parameters an admin may type into the generic route
Targets == Statuses \cup {"shipped"}

None == "None"

VARIABLES products, cart_items, orders, order_comments, discount_codes,
          spin_attempts, disk, created, now, last, served, running

mem ==
    <<products, cart_items, orders, order_comments, discount_codes, spin_attempts>>
vars == <<products, cart_items, orders, order_comments, discount_codes,
          spin_attempts, disk, created, now, last, served, running>>

\* ---------------------------------------------------------------- requests
\* the last request that was carried out: the route, the session user, the order
\* and target status it named and the status the order had (old_status)
Req(op, u, o, t, old) ==
    [op |-> op, user |-> u, order |-> o, target |-> t, old |-> old]

\* one more request carried out
Served == served < MaxRequests /\ served' = served + 1

\* role_required(roles): 'vendor' is treated as 'seller'
role_required(roles, u) ==
    LET r == get_user_by_id(u).role
        user_role == IF r = "vendor" /\ "seller" \in roles THEN "seller" ELSE r
    IN  user_role \in roles

\* ---------------------------------------------------------------- time
\* the clock (datetime.now()) counts minutes
MinutesPerDay == 24 * 60

\* ---------------------------------------------------------------- catalogue
\* add_product: a promotion without an end date ends timedelta(days=7) from now
PromoDays == 7

\* promotional_end_date is <<>> for None and <<t>> for the time t
NoDate == <<>>
Date(t) == <<t>>

InitProducts ==
    [p \in ProductIds |->
        IF p = "p1"
        THEN [vendor_id |-> "v1", price |-> 10, is_active |-> TRUE,
              stock |-> InitStock, is_promotional |-> FALSE,
              promotional_price |-> 0, promotional_end_date |-> NoDate]
        ELSE [vendor_id |-> "v2", price |-> 20, is_active |-> TRUE,
              stock |-> InitStock, is_promotional |-> TRUE,
              promotional_price |-> 10,
              promotional_end_date |-> Date(PromoDays * MinutesPerDay)]]

\* DiscountCode.__init__: expires_at = created_at + timedelta(days=7)
DiscountDays == 7
DiscountLifetime == DiscountDays * MinutesPerDay

InitDiscountCodes ==
    [c \in {"A"} |-> [user_id |-> "c1", discount_percentage |-> 10,
                      is_used |-> FALSE, expires_at |-> DiscountLifetime]]

\* models.spin_attempts: user id -> list of SpinAttempt; no user has spun yet
InitSpinAttempts == [u \in {} |-> <<>>]

\* ---------------------------------------------------------------- persistence
NoFile == [exists |-> FALSE]

\* JSON null, and datetime.isoformat() / datetime.fromisoformat()
JsonNull == [null |-> TRUE]
isoformat(t) == [iso |-> t]
fromisoformat(text) == text.iso

\* User.to_dict with add_class_info
user_to_dict(user) == [class |-> "User", role |-> user.role]

\* Product.to_dict with add_class_info
product_to_dict(product) ==
    [class |-> "Product", vendor_id |-> product.vendor_id,
     price |-> product.price, is_active |-> product.is_active,
     stock |-> product.stock, is_promotional |-> product.is_promotional,
     promotional_price |-> product.promotional_price,
     promotional_end_date |->
         IF product.promotional_end_date # NoDate
         THEN isoformat(product.promotional_end_date[1]) ELSE JsonNull]

\* save_data: str(key) of a cart key; CartItem.to_dict with add_class_info
cart_key_str(key) == [str |-> key]
cart_item_to_dict(quantity) == [class |-> "CartItem", quantity |-> quantity]

\* Order.to_dict with add_class_info
order_to_dict(order) ==
    [class |-> "Order", customer_id |-> order.customer_id,
     items |-> order.items, subtotal |-> order.subtotal,
     discount_code |-> order.discount_code,
     discount_percentage |-> order.discount_percentage,
     discount_amount |-> order.discount_amount,
     total_amount |-> order.total_amount, status |-> order.status]

\* OrderComment.to_dict with add_class_info
comment_to_dict(comment) ==
    [class |-> "OrderComment", order_id |-> comment.order_id,
     user_id |-> comment.user_id, message |-> comment.message,
     user_role |-> comment.user_role]

\* DiscountCode.to_dict with add_class_info
discount_code_to_dict(discount) ==
    [class |-> "DiscountCode", user_id |-> discount.user_id,
     discount_percentage |-> discount.discount_percentage,
     is_used |-> discount.is_used,
     expires_at |-> isoformat(discount.expires_at)]

\* SpinAttempt.to_dict with add_class_info
spin_attempt_to_dict(attempt) ==
    [class |-> "SpinAttempt", user_id |-> attempt.user_id,
     spin_number |-> attempt.spin_number,
     result_discount |-> attempt.result_discount,
     timestamp |-> isoformat(attempt.timestamp)]

\* save_data: data_to_save, the JSON document written to the data file
Snapshot(ps, cs, os, ocs, ds, ss) ==
    [exists |-> TRUE,
     products |-> [p \in DOMAIN ps |-> product_to_dict(ps[p])],
     cart_items |->
         [k \in {cart_key_str(key) : key \in DOMAIN cs} |->
             cart_item_to_dict(cs[k.str])],
     orders |-> [o \in DOMAIN os |-> order_to_dict(os[o])],
     order_comments |->
         [o \in DOMAIN ocs |->
             [i \in 1..Len(ocs[o]) |-> comment_to_dict(ocs[o][i])]],
     discount_codes |-> [c \in DOMAIN ds |-> discount_code_to_dict(ds[c])],
     spin_attempts |->
         [u \in DOMAIN ss |->
             [i \in 1..Len(ss[u]) |-> spin_attempt_to_dict(ss[u][i])]]]

EmptyFn == [x \in {} |-> 0]

\* no checkout request is being processed
NoRequests == EmptyFn

\* initialize_data_and_defaults: the process starts from a data file that holds
\* these users, products and the discount code, and load_data reads it
Init ==
    /\ products = InitProducts
    /\ cart_items = EmptyFn
    /\ orders = EmptyFn
    /\ order_comments = EmptyFn
    /\ discount_codes = InitDiscountCodes
    /\ spin_attempts = InitSpinAttempts
    /\ disk = Snapshot(InitProducts, EmptyFn, EmptyFn, EmptyFn,
                       InitDiscountCodes, InitSpinAttempts)
    /\ created = 0
    /\ now = 0
    /\ served = 0
    /\ last = Req("init", None, 0, None, None)
    /\ running = NoRequests

\* dictionary helpers
Remove(f, k) == [x \in DOMAIN f \ {k} |-> f[x]]
Put(f, k, v) == [x \in DOMAIN f \cup {k} |-> IF x = k THEN v ELSE f[x]]

\* ---------------------------------------------------------------- cart
\* get_cart_items(user_id): the keys of the user's cart entries
get_cart_items(u) == {k \in DOMAIN cart_items : k[1] = u}

\* a variant of add_to_cart_ok that compares the stock with the added quantity
\* only, not with what the cart holds already
add_to_cart_ok_added_only(u, p, quantity) ==
    /\ p \in DOMAIN products
    /\ ~(products[p].stock < quantity)

\* add_to_cart(user_id, product_id, quantity): its return value
add_to_cart_ok(u, p, quantity) ==
    /\ p \in DOMAIN products
    /\ ~(products[p].stock < quantity)
    /\ (<<u, p>> \in DOMAIN cart_items
        => ~(products[p].stock < cart_items[<<u, p>>] + quantity))

\* add_to_cart: the cart afterwards, when it returns True
add_to_cart(u, p, quantity) ==
    IF <<u, p>> \in DOMAIN cart_items
    THEN [cart_items EXCEPT ![<<u, p>>] = @ + quantity]
    ELSE Put(cart_items, <<u, p>>, quantity)

AddToCartRoute(u, p) ==
    IF /\ get_user_by_id(u).role = "customer"
       /\ p \in DOMAIN products
       /\ products[p].is_active
       /\ add_to_cart_ok(u, p, 1)
    THEN /\ cart_items' = add_to_cart(u, p, 1)
         /\ last' = Req("add_to_cart", u, 0, None, None)
         /\ Served
         /\ UNCHANGED <<products, orders, discount_codes, disk, created, now,
                        spin_attempts, order_comments, running>>
    ELSE UNCHANGED vars

UpdateCartQuantity(u, p, new_quantity) ==
    IF /\ role_required({"customer"}, u)
       /\ ~(new_quantity < 1)
       /\ p \in DOMAIN products
       /\ ~(products[p].stock < new_quantity)
       /\ <<u, p>> \in DOMAIN cart_items
    THEN /\ cart_items' = [cart_items EXCEPT ![<<u, p>>] = new_quantity]
         /\ last' = Req("update_cart_quantity", u, 0, None, None)
         /\ Served
         /\ UNCHANGED <<products, orders, discount_codes, disk, created, now,
                        spin_attempts, order_comments, running>>
    ELSE UNCHANGED vars

RemoveFromCart(u, p) ==
    IF role_required({"customer"}, u) /\ <<u, p>> \in DOMAIN cart_items
    THEN /\ cart_items' = Remove(cart_items, <<u, p>>)
         /\ last' = Req("remove_from_cart", u, 0, None, None)
         /\ Served
         /\ UNCHANGED <<products, orders, discount_codes, disk, created, now,
                        spin_attempts, order_comments, running>>
    ELSE UNCHANGED vars

\* a variant of CartWithout that empties the carts of all users
CartWithoutAnyone(u) == [k \in {} |-> 0]

\* the cart without any entry of user u
CartWithout(u) == [k \in DOMAIN cart_items \ get_cart_items(u) |-> cart_items[k]]

ClearCart(u) ==
    IF role_required({"customer"}, u)
    THEN /\ cart_items' = CartWithout(u)
         /\ last' = Req("clear_cart", u, 0, None, None)
         /\ Served
         /\ UNCHANGED <<products, orders, discount_codes, disk, created, now,
                        spin_attempts, order_comments, running>>
    ELSE UNCHANGED vars

\* ---------------------------------------------------------------- catalogue routes
\* toggle_product / delete_product: the ownership test reads user.role == 'seller',
\* a value no stored role has, so it never rejects
seller_owns_check_fails(u, p) ==
    get_user_by_id(u).role = "seller" /\ products[p].vendor_id # u

ToggleProduct(u, p) ==
    IF /\ role_required({"seller", "admin"}, u)
       /\ p \in DOMAIN products
       /\ ~seller_owns_check_fails(u, p)
    THEN /\ products' = [products EXCEPT ![p].is_active = ~@]
         /\ last' = Req("toggle_product", u, 0, None, None)
         /\ Served
         /\ UNCHANGED <<cart_items, orders, discount_codes, disk, created, now,
                        spin_attempts, order_comments, running>>
    ELSE UNCHANGED vars

DeleteProduct(u, p) ==
    IF /\ role_required({"seller", "admin"}, u)
       /\ p \in DOMAIN products
       /\ ~seller_owns_check_fails(u, p)
    THEN /\ products' = Remove(products, p)
         /\ last' = Req("delete_product", u, 0, None, None)
         /\ Served
         /\ UNCHANGED <<cart_items, orders, discount_codes, disk, created, now,
                        spin_attempts, order_comments, running>>
    ELSE UNCHANGED vars

\* edit_product: for an existing product the handler reads product.seller_id, an
\* attribute Product never has, and ends in an error before any assignment
EditProduct(u, p) == UNCHANGED vars

\* ---------------------------------------------------------------- discount codes
\* str.upper() on the code strings the requests carry
Upper(code) == IF code = "a" THEN "A" ELSE IF code = "z" THEN "Z" ELSE code

\* get_discount_code(code): the key looked up, when present
get_discount_code(code) == Upper(code)

\* variant of validate_discount_code: the owner is checked before the used flag
validate_discount_code_owner_first(code, u) ==
    LET c == IF code = "a" THEN "A" ELSE IF code = "z" THEN "Z" ELSE code IN
    IF c \notin DOMAIN discount_codes THEN "Invalid discount code"
    ELSE IF discount_codes[c].user_id # u
         THEN "Discount code is not valid for this user"
    ELSE IF discount_codes[c].is_used THEN "Discount code has already been used"
    ELSE IF discount_codes[c].expires_at < now THEN "Discount code has expired"
    ELSE "ok"

\* validate_discount_code(code, user_id) -> the failure message, or "ok"
validate_discount_code(code, u) ==
    LET c == get_discount_code(code) IN
    IF c \notin DOMAIN discount_codes THEN "Invalid discount code"
    ELSE IF discount_codes[c].is_used THEN "Discount code has already been used"
    ELSE IF discount_codes[c].user_id # u
         THEN "Discount code is not valid for this user"
    ELSE IF discount_codes[c].expires_at < now THEN "Discount code has expired"
    ELSE "ok"

\* use_discount_code(code, user_id): the code store afterwards
use_discount_code(code, u) ==
    LET c == get_discount_code(code) IN
    IF c \in DOMAIN discount_codes /\ discount_codes[c].user_id = u
    THEN [discount_codes EXCEPT ![c].is_used = TRUE]
    ELSE discount_codes

\* ---------------------------------------------------------------- checkout
\* the unit price charged for a product at checkout
checkout_price(p) ==
    IF products[p].is_promotional /\ products[p].promotional_price # 0
    THEN products[p].promotional_price
    ELSE products[p].price

\* order_items of checkout(): one line per cart entry whose product still exists
RECURSIVE order_items_from(_, _)
order_items_from(u, i) ==
    IF i > Len(ProductOrder) THEN <<>>
    ELSE LET p == ProductOrder[i]
             rest == order_items_from(u, i + 1)
         IN  IF <<u, p>> \in DOMAIN cart_items /\ p \in DOMAIN products
             THEN <<[product_id |-> p, quantity |-> cart_items[<<u, p>>],
                     price |-> checkout_price(p),
                     total |-> checkout_price(p) * cart_items[<<u, p>>]]>> \o rest
             ELSE rest

order_items(u) == order_items_from(u, 1)

\* total_amount accumulated over order_items
RECURSIVE items_total(_)
items_total(items) ==
    IF items = <<>> THEN 0 ELSE Head(items).total + items_total(Tail(items))

\* a form field: a numeric string, the empty string, or text float() rejects
Num(n) == [kind |-> "num", val |-> n]
EmptyField == [kind |-> "empty", val |-> 0]
TextField == [kind |-> "text", val |-> 0]
\* the field is absent from the form and request.form.get supplies its default
AbsentField == [kind |-> "absent", val |-> 0]
IsNumber(x) == x.kind = "num"

\* the request forms a checkout is tried with: discount_code, the hidden
\* applied_* fields and final_total_amount ("default": the field is absent)
CheckoutForms ==
    { [discount_code |-> "", applied_discount_code |-> "",
       applied_discount_percentage |-> AbsentField,
       applied_discount_amount |-> AbsentField,
       final_total_amount |-> AbsentField],
      [discount_code |-> "A", applied_discount_code |-> "",
       applied_discount_percentage |-> AbsentField,
       applied_discount_amount |-> AbsentField,
       final_total_amount |-> AbsentField],
      [discount_code |-> "", applied_discount_code |-> "A",
       applied_discount_percentage |-> Num(10),
       applied_discount_amount |-> Num(1),
       final_total_amount |-> AbsentField] }

\* the discount block of checkout(): the values handed to create_order and the
\* code store afterwards
checkout_discount(u, form, subtotal) ==
    LET \* request.form.get(name, default): '0', '0' and str(total_amount)
        pct_f == IF form.applied_discount_percentage = AbsentField THEN Num(0)
                 ELSE form.applied_discount_percentage
        amt_f == IF form.applied_discount_amount = AbsentField THEN Num(0)
                 ELSE form.applied_discount_amount
        final == IF form.final_total_amount = AbsentField THEN Num(subtotal)
                 ELSE form.final_total_amount
        none == [discount_percentage |-> 0, discount_amount |-> 0,
                 total_amount |-> subtotal, applied |-> FALSE,
                 codes |-> discount_codes]
    IN
    IF /\ form.applied_discount_code # ""
       /\ pct_f # EmptyField
       /\ amt_f # EmptyField
    THEN \* the values of the hidden form fields are taken as they are; a
         \* ValueError from float() leaves the assignments made before it
         IF ~IsNumber(pct_f) THEN none
         ELSE IF ~IsNumber(amt_f)
              THEN [none EXCEPT !.discount_percentage = pct_f.val]
         ELSE IF ~IsNumber(final)
              THEN [none EXCEPT !.discount_percentage = pct_f.val,
                                !.discount_amount = amt_f.val]
         ELSE [discount_percentage |-> pct_f.val,
               discount_amount |-> amt_f.val,
               total_amount |-> final.val, applied |-> TRUE,
               codes |-> use_discount_code(form.applied_discount_code, u)]
    ELSE IF form.discount_code # ""
    THEN IF validate_discount_code(form.discount_code, u) = "ok"
         THEN LET pct == discount_codes[get_discount_code(form.discount_code)]
                            .discount_percentage
                  amount == (subtotal * pct) \div 100
              IN  [discount_percentage |-> pct, discount_amount |-> amount,
                   total_amount |-> subtotal - amount, applied |-> TRUE,
                   codes |-> use_discount_code(form.discount_code, u)]
         ELSE none
    ELSE none

\* Order.__init__
Order(customer_id, items, total_amount, discount_code, discount_percentage, discount_amount, subtotal) ==
    [customer_id |-> customer_id, items |-> items, subtotal |-> subtotal,
     discount_code |-> discount_code,
     discount_percentage |-> discount_percentage,
     discount_amount |-> discount_amount, total_amount |-> total_amount,
     status |-> "pending"]

\* the quantity an order's items take from product p
RECURSIVE ordered_quantity(_, _)
ordered_quantity(items, p) ==
    IF items = <<>> THEN 0
    ELSE (IF Head(items).product_id = p THEN Head(items).quantity ELSE 0)
         + ordered_quantity(Tail(items), p)

\* variant of stock_after_order: one unit per line item, whatever the quantity
stock_after_order_by_one(items) ==
    [p \in DOMAIN products |->
        [products[p] EXCEPT
            !.stock = @ - Cardinality({i \in 1..Len(items) :
                                          items[i].product_id = p})]]

\* create_order: the stock decrement loop
stock_after_order(items) ==
    [p \in DOMAIN products |->
        [products[p] EXCEPT !.stock = @ - ordered_quantity(items, p)]]

Checkout(u, form) ==
    /\ created < MaxOrders
    /\ LET items == order_items(u)
           subtotal == items_total(items)
           d == checkout_discount(u, form, subtotal)
           id == created + 1
           order == Order(u, items, d.total_amount,
                          IF d.applied THEN form.applied_discount_code ELSE None,
                          d.discount_percentage, d.discount_amount, subtotal)
       IN  IF role_required({"customer"}, u) /\ get_cart_items(u) # {}
           THEN /\ orders' = Put(orders, id, order)
                /\ order_comments' = Put(order_comments, id, <<>>)
                /\ products' = stock_after_order(items)
                /\ discount_codes' = d.codes
                /\ created' = id
                /\ last' = Req("checkout", u, id, None, None)
                /\ Served
                /\ UNCHANGED <<cart_items, disk, now, spin_attempts, running>>
           ELSE UNCHANGED vars

\* ---------------------------------------------------------------- order status
\* variant of customer_transitions: the customer may also confirm delivery of an
\* order that was never approved
customer_transitions_shortcut(status) ==
    IF status = "pending" THEN {"receipt_pending", "delivered"}
    ELSE IF status = "approved" THEN {"delivered"} ELSE {}

\* allowed_transitions['customer'].get(old_status, [])
customer_transitions(status) ==
    IF status = "pending" THEN {"receipt_pending"}
    ELSE IF status = "approved" THEN {"delivered"} ELSE {}

\* allowed_transitions['vendor'].get(old_status, [])
vendor_transitions(status) ==
    IF status = "receipt_pending" THEN {"admin_review"} ELSE {}

\* variant of admin_transitions: the table has lost its 'delivered' row
admin_transitions_without_delivered(status) ==
    IF status = "pending"
    THEN {"cancelled", "receipt_pending", "admin_review", "approved", "delivered"}
    ELSE IF status = "receipt_pending"
    THEN {"cancelled", "pending", "admin_review", "approved", "delivered"}
    ELSE IF status = "admin_review"
    THEN {"cancelled", "pending", "receipt_pending", "approved", "delivered"}
    ELSE IF status = "approved"
    THEN {"cancelled", "pending", "receipt_pending", "admin_review", "delivered"}
    ELSE {}

\* allowed_transitions['admin'].get(old_status, [])
admin_transitions(status) ==
    IF status = "pending"
    THEN {"cancelled", "receipt_pending", "admin_review", "approved", "delivered"}
    ELSE IF status = "receipt_pending"
    THEN {"cancelled", "pending", "admin_review", "approved", "delivered"}
    ELSE IF status = "admin_review"
    THEN {"cancelled", "pending", "receipt_pending", "approved", "delivered"}
    ELSE IF status = "approved"
    THEN {"cancelled", "pending", "receipt_pending", "admin_review", "delivered"}
    ELSE IF status = "delivered"
    THEN {"cancelled", "pending", "receipt_pending", "admin_review", "approved"}
    ELSE {}

\* allowed_transitions[user.role].get(old_status, []), and [] for a role the table
\* does not have
allowed_transitions(role, status) ==
    IF role = "customer" THEN customer_transitions(status)
    ELSE IF role = "vendor" THEN vendor_transitions(status)
    ELSE IF role = "admin" THEN admin_transitions(status)
    ELSE {}

\* variant of customer_owns_order: the ownership check is missing
customer_owns_any_order(u, order) == TRUE

\* the customer ownership check of _perform_status_update
customer_owns_order(u, order) == order.customer_id = u

\* variant of vendor_owns_product_in_order: any product still in the catalogue
\* counts, whoever sells it
vendor_sees_product_in_order(u, order) ==
    \E i \in 1..Len(order.items) : order.items[i].product_id \in DOMAIN products

\* vendor_owns_product_in_order: some item's product exists and is the vendor's
vendor_owns_product_in_order(u, order) ==
    \E i \in 1..Len(order.items) :
        /\ order.items[i].product_id \in DOMAIN products
        /\ products[order.items[i].product_id].vendor_id = u

\* a variant of get_orders_pending_vendor_approval that lists the vendor's
\* orders of every status
get_orders_of_vendor_in_any_status(vendor_id) ==
    {o \in DOMAIN orders :
        \E i \in 1..Len(orders[o].items) :
            /\ orders[o].items[i].product_id \in DOMAIN products
            /\ products[orders[o].items[i].product_id].vendor_id = vendor_id}

\* get_orders_pending_vendor_approval(vendor_id): the orders in receipt_pending
\* with an item whose product exists and is the vendor's
get_orders_pending_vendor_approval(vendor_id) ==
    {o \in DOMAIN orders :
        /\ orders[o].status = "receipt_pending"
        /\ \E i \in 1..Len(orders[o].items) :
               /\ orders[o].items[i].product_id \in DOMAIN products
               /\ products[orders[o].items[i].product_id].vendor_id = vendor_id}

\* _perform_status_update(order_id, new_status, current_user_id): its return value
\* (update_order_status returns True whenever the order exists)
perform_status_update_ok(o, new_status, u) ==
    /\ o \in DOMAIN orders
    /\ new_status \in allowed_transitions(get_user_by_id(u).role, orders[o].status)
    /\ (get_user_by_id(u).role = "customer" => customer_owns_order(u, orders[o]))
    /\ (get_user_by_id(u).role = "vendor"
        => vendor_owns_product_in_order(u, orders[o]))

\* a variant of update_order_status that also drops the order's discount
update_order_status_undiscounted(o, new_status) ==
    [orders EXCEPT ![o].status = new_status, ![o].discount_amount = 0,
                   ![o].total_amount = orders[o].subtotal]

\* models.update_order_status: the order store afterwards
update_order_status(o, new_status) == [orders EXCEPT ![o].status = new_status]

\* The four routes that only guard by role and call _perform_status_update;
\* update_order_status saves the snapshot before it returns.
VendorApproveReceipt(u, o) ==
    IF /\ role_required({"seller"}, u)
       /\ perform_status_update_ok(o, "admin_review", u)
    THEN /\ orders' = update_order_status(o, "admin_review")
         /\ disk' = Snapshot(products, cart_items, orders', order_comments,
                          discount_codes, spin_attempts)
         /\ last' = Req("vendor_approve_receipt", u, o, "admin_review", orders[o].status)
         /\ Served
         /\ UNCHANGED <<products, cart_items, discount_codes, created, now,
                        spin_attempts, order_comments, running>>
    ELSE UNCHANGED vars

AdminApproveOrder(u, o) ==
    IF /\ role_required({"admin"}, u)
       /\ perform_status_update_ok(o, "approved", u)
    THEN /\ orders' = update_order_status(o, "approved")
         /\ disk' = Snapshot(products, cart_items, orders', order_comments,
                          discount_codes, spin_attempts)
         /\ last' = Req("admin_approve_order", u, o, "approved", orders[o].status)
         /\ Served
         /\ UNCHANGED <<products, cart_items, discount_codes, created, now,
                        spin_attempts, order_comments, running>>
    ELSE UNCHANGED vars

\* the admin form posts any status string
UpdateOrderStatusRoute(u, o, status) ==
    IF /\ role_required({"admin"}, u)
       /\ perform_status_update_ok(o, status, u)
    THEN /\ orders' = update_order_status(o, status)
         /\ disk' = Snapshot(products, cart_items, orders', order_comments,
                          discount_codes, spin_attempts)
         /\ last' = Req("update_order_status_route", u, o, status, orders[o].status)
         /\ Served
         /\ UNCHANGED <<products, cart_items, discount_codes, created, now,
                        spin_attempts, order_comments, running>>
    ELSE UNCHANGED vars

CustomerConfirmDelivery(u, o) ==
    IF /\ role_required({"customer"}, u)
       /\ perform_status_update_ok(o, "delivered", u)
    THEN /\ orders' = update_order_status(o, "delivered")
         /\ disk' = Snapshot(products, cart_items, orders', order_comments,
                          discount_codes, spin_attempts)
         /\ last' = Req("customer_confirm_delivery", u, o, "delivered", orders[o].status)
         /\ Served
         /\ UNCHANGED <<products, cart_items, discount_codes, created, now,
                        spin_attempts, order_comments, running>>
    ELSE UNCHANGED vars

\* checkout_payment: the route's own checks, the status update, then the cart of
\* the paying customer is emptied (after the snapshot was saved)
CheckoutPayment(u, o, payment_valid) ==
    IF /\ role_required({"customer"}, u)
       /\ o \in DOMAIN orders
       /\ orders[o].customer_id = u
       /\ orders[o].status = "pending"
       /\ payment_valid
       /\ perform_status_update_ok(o, "receipt_pending", u)
    THEN /\ orders' = update_order_status(o, "receipt_pending")
         /\ disk' = Snapshot(products, cart_items, orders', order_comments,
                          discount_codes, spin_attempts)
         /\ cart_items' = CartWithout(u)
         /\ last' = Req("checkout_payment", u, o, "receipt_pending",
                        orders[o].status)
         /\ Served
         /\ UNCHANGED <<products, discount_codes, created, now, spin_attempts,
                        order_comments, running>>
    ELSE UNCHANGED vars

\* ---------------------------------------------------------------- order removal
\* variant of admin_may_delete: the status check is missing
admin_may_delete_any(order) == TRUE

\* admin_delete_order: only a cancelled order is handed to delete_order
admin_may_delete(order) == order.status = "cancelled"

\* models.delete_order: the order store afterwards (saved before it returns)
delete_order(o) == Remove(orders, o)

AdminDeleteOrder(u, o) ==
    IF /\ role_required({"admin"}, u)
       /\ o \in DOMAIN orders
       /\ admin_may_delete(orders[o])
    THEN /\ orders' = delete_order(o)
         /\ disk' = Snapshot(products, cart_items, orders', order_comments,
                          discount_codes, spin_attempts)
         /\ last' = Req("admin_delete_order", u, o, None, orders[o].status)
         /\ Served
         /\ UNCHANGED <<products, cart_items, discount_codes, created, now,
                        spin_attempts, order_comments, running>>
    ELSE UNCHANGED vars

\* cancel_pending_order: the customer may cancel an own order that is pending
customer_may_cancel(u, order) ==
    order.customer_id = u /\ order.status = "pending"

\* variant of cancel_pending_order: the order is kept and marked cancelled
cancel_pending_order_marks(o) ==
    [products |-> products, orders |-> [orders EXCEPT ![o].status = "cancelled"]]

\* variant of cancel_pending_order: the ordered quantities return to stock
cancel_pending_order_restocks(o) ==
    [products |->
        [p \in DOMAIN products |->
            [products[p] EXCEPT
                !.stock = @ + ordered_quantity(orders[o].items, p)]],
     orders |-> Remove(orders, o)]

\* cancel_pending_order: the dictionaries afterwards: the order is deleted,
\* stock and cart are left as they are (and nothing is saved)
cancel_pending_order(o) ==
    [products |-> products, orders |-> Remove(orders, o)]

CancelPendingOrder(u, o) ==
    IF /\ role_required({"customer"}, u)
       /\ o \in DOMAIN orders
       /\ customer_may_cancel(u, orders[o])
    THEN /\ orders' = cancel_pending_order(o).orders
         /\ products' = cancel_pending_order(o).products
         /\ last' = Req("cancel_pending_order", u, o, None, orders[o].status)
         /\ Served
         /\ UNCHANGED <<cart_items, discount_codes, disk, created, now,
                        spin_attempts, order_comments, running>>
    ELSE UNCHANGED vars

\* ---------------------------------------------------------------- reload
\* OrderComment.__init__
OrderComment(order_id, user_id, message, user_role) ==
    [order_id |-> order_id, user_id |-> user_id, message |-> message,
     user_role |-> user_role]

\* SpinAttempt.__init__
SpinAttempt(user_id, spin_number, result_discount, timestamp) ==
    [user_id |-> user_id, spin_number |-> spin_number,
     result_discount |-> result_discount, timestamp |-> timestamp]

\* object_hook, class User
object_hook_user(dct) == [role |-> dct.role]

\* object_hook, class Product
object_hook_product(dct) ==
    [vendor_id |-> dct.vendor_id, price |-> dct.price,
     is_active |-> dct.is_active, stock |-> dct.stock,
     is_promotional |-> dct.is_promotional,
     promotional_price |-> dct.promotional_price,
     promotional_end_date |->
         IF dct.promotional_end_date # JsonNull
         THEN Date(fromisoformat(dct.promotional_end_date)) ELSE NoDate]

\* load_data: eval(key_str); object_hook, class CartItem
eval_cart_key(key_str) == key_str.str
object_hook_cart_item(dct) == dct.quantity

\* object_hook, class Order: the constructor, then id, status and timestamps
object_hook_order(dct) ==
    [Order(dct.customer_id, dct.items, dct.total_amount, dct.discount_code,
           dct.discount_percentage, dct.discount_amount, dct.subtotal)
        EXCEPT !.status = dct.status]

\* object_hook, class OrderComment
object_hook_comment(dct) ==
    OrderComment(dct.order_id, dct.user_id, dct.message, dct.user_role)

\* a variant of object_hook_discount_code that leaves the flag of the
\* constructor in place
object_hook_discount_code_fresh(dct) ==
    [user_id |-> dct.user_id, discount_percentage |-> dct.discount_percentage,
     is_used |-> FALSE, expires_at |-> fromisoformat(dct.expires_at)]

\* object_hook, class DiscountCode: the constructor, then is_used and expires_at
object_hook_discount_code(dct) ==
    [user_id |-> dct.user_id, discount_percentage |-> dct.discount_percentage,
     is_used |-> dct.is_used, expires_at |-> fromisoformat(dct.expires_at)]

\* object_hook, class SpinAttempt
object_hook_spin_attempt(dct) ==
    SpinAttempt(dct.user_id, dct.spin_number, dct.result_discount,
                fromisoformat(dct.timestamp))

\* load_data: the dictionaries rebuilt from the JSON document
load_from(file) ==
    [products |->
         [p \in DOMAIN file.products |-> object_hook_product(file.products[p])],
     cart_items |->
         [key \in {eval_cart_key(k) : k \in DOMAIN file.cart_items} |->
             object_hook_cart_item(file.cart_items[cart_key_str(key)])],
     orders |-> [o \in DOMAIN file.orders |-> object_hook_order(file.orders[o])],
     order_comments |->
         [o \in DOMAIN file.order_comments |->
             [i \in 1..Len(file.order_comments[o]) |->
                 object_hook_comment(file.order_comments[o][i])]],
     discount_codes |->
         [c \in DOMAIN file.discount_codes |->
             object_hook_discount_code(file.discount_codes[c])],
     spin_attempts |->
         [u \in DOMAIN file.spin_attempts |->
             [i \in 1..Len(file.spin_attempts[u]) |->
                 object_hook_spin_attempt(file.spin_attempts[u][i])]]]

\* open(DATA_FILE, 'w') truncates the data file and json.dump writes it in place:
\* a write that stops part-way leaves a file that is not a JSON document
PartialFile == [exists |-> TRUE, partial |-> TRUE]

\* json.load raises on a file that is not a complete JSON document
json_load_fails(file) == file = PartialFile

\* load_data's except branch: every dictionary is cleared
cleared_data ==
    [products |-> EmptyFn, cart_items |-> EmptyFn, orders |-> EmptyFn,
     order_comments |-> EmptyFn, discount_codes |-> EmptyFn,
     spin_attempts |-> EmptyFn]

\* load_data(): the dictionaries are replaced by what the data file holds, when
\* the file exists; they are cleared when the file cannot be parsed
load_data ==
    IF ~disk.exists
    THEN [products |-> products, cart_items |-> cart_items, orders |-> orders,
          order_comments |-> order_comments,
          discount_codes |-> discount_codes, spin_attempts |-> spin_attempts]
    ELSE IF json_load_fails(disk)
    THEN cleared_data
    ELSE load_from(disk)

\* /reload_data needs no login
ReloadData ==
    /\ disk.exists
    /\ products' = load_data.products
    /\ cart_items' = load_data.cart_items
    /\ orders' = load_data.orders
    /\ order_comments' = load_data.order_comments
    /\ discount_codes' = load_data.discount_codes
    /\ spin_attempts' = load_data.spin_attempts
    /\ last' = Req("reload_data", None, 0, None, None)
    /\ Served
    /\ UNCHANGED <<disk, created, now, running>>

\* ------------------------------------------------------------------ crash, restart
\* initialize_data_and_defaults(), called when the process starts: the data file
\* is loaded; the sample products are created when no product was loaded, and
\* when the load failed everything else starts empty
initialize_data_and_defaults(file) ==
    IF file.exists /\ ~json_load_fails(file)
    THEN [load_from(file) EXCEPT
             !.products = IF load_from(file).products = EmptyFn
                          THEN InitProducts ELSE load_from(file).products]
    ELSE [cleared_data EXCEPT !.products = InitProducts]

\* where the process can stop inside save_data: before the file is opened, after
\* open(DATA_FILE, 'w') has truncated it, or after json.dump has written it all
CrashPoints == {"before_open", "while_writing", "after_write"}

\* the data file a stopped save_data leaves behind
file_after_crash(point, new_file) ==
    CASE point = "before_open" -> disk
      [] point = "while_writing" -> PartialFile
      [] point = "after_write" -> new_file

\* An admin status update whose save_data is cut short by the process stopping
\* at the given point; the process is started again and reads the data file.
CrashInSave(u, o, status, point) ==
    IF /\ role_required({"admin"}, u)
       /\ perform_status_update_ok(o, status, u)
    THEN /\ disk' = file_after_crash(point,
                        Snapshot(products, cart_items, update_order_status(o, status),
                                 order_comments, discount_codes, spin_attempts))
         /\ products' = initialize_data_and_defaults(disk').products
         /\ cart_items' = initialize_data_and_defaults(disk').cart_items
         /\ orders' = initialize_data_and_defaults(disk').orders
         /\ order_comments' = initialize_data_and_defaults(disk').order_comments
         /\ discount_codes' = initialize_data_and_defaults(disk').discount_codes
         /\ spin_attempts' = initialize_data_and_defaults(disk').spin_attempts
         /\ last' = Req("crash_in_save", u, o, status, point)
         /\ Served
         /\ UNCHANGED <<created, now, running>>
    ELSE UNCHANGED vars

\* ------------------------------------------------------------------- failed write
\* how the write inside save_data can fail: open() raises and the file is left
\* as it was, or json.dump raises after the file was truncated
WriteFailures == {"open_raises", "dump_raises"}

\* the data file after a failed write
file_after_failure(failure) ==
    IF failure = "open_raises" THEN disk ELSE PartialFile

\* save_data's try/except logs every exception of the write and returns
\* normally: no exception reaches its caller
save_data_raises(failure) == FALSE

\* models.update_order_status: False when the order is missing or save_data
\* raised, True otherwise
update_order_status_returns(o, failure) ==
    o \in DOMAIN orders /\ ~save_data_raises(failure)

\* An admin status update whose write of the data file fails: the status is set
\* in memory, and _perform_status_update flashes and returns what
\* update_order_status returned (recorded in last.old).
UpdateOrderStatusSaveFails(u, o, status, failure) ==
    IF /\ role_required({"admin"}, u)
       /\ perform_status_update_ok(o, status, u)
    THEN /\ orders' = update_order_status(o, status)
         /\ disk' = file_after_failure(failure)
         /\ last' = Req("status_update_save_fails", u, o, status,
                        IF update_order_status_returns(o, failure)
                        THEN "success" ELSE "failure")
         /\ Served
         /\ UNCHANGED <<products, cart_items, discount_codes, created, now,
                        spin_attempts, order_comments, running>>
    ELSE UNCHANGED vars

\* ---------------------------------------------------------------- specifications
\* a checkout form without any discount field
NoDiscountForm ==
    [discount_code |-> "", applied_discount_code |-> "",
     applied_discount_percentage |-> AbsentField,
     applied_discount_amount |-> AbsentField,
     final_total_amount |-> AbsentField]

\* The order lifecycle: orders are created from carts and moved, cancelled and
\* deleted by the three roles; the snapshot is reloaded at any time.
Next ==
    \/ \E u \in UserIds, p \in ProductIds : AddToCartRoute(u, p)
    \/ \E u \in UserIds, p \in ProductIds : DeleteProduct(u, p)
    \/ \E u \in UserIds : Checkout(u, NoDiscountForm)
    \/ \E u \in UserIds, o \in OrderIds, v \in BOOLEAN : CheckoutPayment(u, o, v)
    \/ \E u \in UserIds, o \in OrderIds : VendorApproveReceipt(u, o)
    \/ \E u \in UserIds, o \in OrderIds : AdminApproveOrder(u, o)
    \/ \E u \in UserIds, o \in OrderIds, t \in Targets :
           UpdateOrderStatusRoute(u, o, t)
    \/ \E u \in UserIds, o \in OrderIds : CustomerConfirmDelivery(u, o)
    \/ \E u \in UserIds, o \in OrderIds : AdminDeleteOrder(u, o)
    \/ \E u \in UserIds, o \in OrderIds : CancelPendingOrder(u, o)
    \/ ReloadData

Spec == Init /\ [][Next]_vars

\* Cart, catalogue and checkout: carts are filled and edited, products toggled and
\* deleted, orders created with and without discount forms, paid and cancelled.
NextCheckout ==
    \/ \E u \in UserIds, p \in ProductIds : AddToCartRoute(u, p)
    \/ \E u \in UserIds, p \in ProductIds, q \in 0..MaxQty :
           UpdateCartQuantity(u, p, q)
    \/ \E u \in UserIds, p \in ProductIds : RemoveFromCart(u, p)
    \/ \E u \in UserIds : ClearCart(u)
    \/ \E u \in UserIds, p \in ProductIds : ToggleProduct(u, p)
    \/ \E u \in UserIds, p \in ProductIds : DeleteProduct(u, p)
    \/ \E u \in UserIds, p \in ProductIds : EditProduct(u, p)
    \/ \E u \in UserIds, form \in CheckoutForms : Checkout(u, form)
    \/ \E u \in UserIds, o \in OrderIds, v \in BOOLEAN : CheckoutPayment(u, o, v)
    \/ \E u \in UserIds, o \in OrderIds : CancelPendingOrder(u, o)
    \/ ReloadData

SpecCheckout == Init /\ [][NextCheckout]_vars

\* ---------------------------------------------------------------- validation
\* the code strings a validation request is tried with
CodeInputs == {"A", "a", "Z", ""}

\* validate_discount_code_ajax: the answer to the request; the stores are only read
validate_discount_code_ajax(u, discount_code) ==
    IF discount_code = "" THEN "Please enter a discount code"
    ELSE validate_discount_code(discount_code, u)

\* the request is recorded with its answer (target) and the code asked (old)
ValidateDiscountCodeAjax(u, discount_code) ==
    /\ last' = Req("validate_discount_code", u, 0,
                   validate_discount_code_ajax(u, discount_code), discount_code)
    /\ Served
    /\ UNCHANGED <<products, cart_items, orders, discount_codes, spin_attempts,
                   disk, created, now, order_comments, running>>

\* the times at which validation is tried: the code was created at 0
ClockStarts ==
    {0, DiscountLifetime - 1, DiscountLifetime, DiscountLifetime + 1}

\* the code stores validation is tried on: code A of either customer, used or not
CodeStores ==
    {[c \in {"A"} |-> [user_id |-> u, discount_percentage |-> 10,
                       is_used |-> used, expires_at |-> DiscountLifetime]] :
        u \in Customers, used \in BOOLEAN}

\* the process starts, at one of the times, from a data file with one of the stores
InitValidate ==
    /\ products = InitProducts
    /\ cart_items = EmptyFn
    /\ orders = EmptyFn
    /\ order_comments = EmptyFn
    /\ discount_codes \in CodeStores
    /\ spin_attempts = InitSpinAttempts
    /\ disk = Snapshot(InitProducts, EmptyFn, EmptyFn, EmptyFn,
                       discount_codes, InitSpinAttempts)
    /\ created = 0
    /\ now \in ClockStarts
    /\ served = 0
    /\ last = Req("init", None, 0, None, None)
    /\ running = NoRequests

NextValidate ==
    \E u \in UserIds, code \in CodeInputs : ValidateDiscountCodeAjax(u, code)

SpecValidate == InitValidate /\ [][NextValidate]_vars

\* ---------------------------------------------------------------- spin wheel
\* get_user_spin_attempts: timedelta(minutes=5)
SpinWindow == 5
\* can_user_spin: len(recent_attempts) < 3
MaxSpins == 3

\* determine_spin_result: possible_results, one of which random.choice returns
determine_spin_result(spin_number) == {0, 5, 10, 15, 20, 25, 30}

\* a variant that lets a percentage of 7 through
AllowedPercentagesWithSeven == {5, 7, 10, 15, 20, 25, 30, 50}

\* spin_wheel_result: the percentages a code is created for
AllowedPercentages == {5, 10, 15, 20, 25, 30, 50}

\* the expected_discount values a spin request is tried with
SpinInputs == {0, 10, 7}

\* the codes random.choices can come up with
CodePool == {"A", "B", "C"}

\* the attempts a user has on record
stored_attempts(u) ==
    IF u \in DOMAIN spin_attempts THEN spin_attempts[u] ELSE <<>>

\* a variant whose window is twice as long
is_recent_twice_as_long(attempt) == attempt.timestamp > now - 2 * SpinWindow

\* a variant that also keeps an attempt made exactly five minutes ago
is_recent_inclusive(attempt) == attempt.timestamp >= now - SpinWindow

\* the comparison of get_user_spin_attempts: attempt.timestamp > five_minutes_ago
is_recent(attempt) == attempt.timestamp > now - SpinWindow

\* get_user_spin_attempts(user_id): its return value
get_user_spin_attempts(u) == SelectSeq(stored_attempts(u), is_recent)

\* get_user_spin_attempts: it drops the older attempts when there are any
cleans_up(u) == Len(get_user_spin_attempts(u)) # Len(stored_attempts(u))

\* get_user_spin_attempts: spin_attempts afterwards
cleaned_spin_attempts(u) ==
    IF cleans_up(u)
    THEN [spin_attempts EXCEPT ![u] = get_user_spin_attempts(u)]
    ELSE spin_attempts

\* get_user_spin_attempts: the data file afterwards (saved after a clean-up)
disk_after_cleanup(u) ==
    IF cleans_up(u)
    THEN Snapshot(products, cart_items, orders, order_comments,
                  discount_codes, cleaned_spin_attempts(u))
    ELSE disk

\* variant of can_user_spin: the comparison is <= instead of <
can_user_spin_once_more(u) == Len(get_user_spin_attempts(u)) <= MaxSpins

can_user_spin(u) == Len(get_user_spin_attempts(u)) < MaxSpins

\* a variant of get_next_spin_number that counts from zero
get_next_spin_number_from_zero(u) == Len(get_user_spin_attempts(u))

get_next_spin_number(u) == Len(get_user_spin_attempts(u)) + 1

\* record_spin_attempt on the cleaned store
record_spin_attempt(u, spin_number, result_discount) ==
    Put(cleaned_spin_attempts(u), u,
        Append(get_user_spin_attempts(u),
               SpinAttempt(u, spin_number, result_discount, now)))

\* a variant of create_discount_code whose codes expire after one day
create_discount_code_for_a_day(code, discount_percentage, u) ==
    Put(discount_codes, code,
        [user_id |-> u, discount_percentage |-> discount_percentage,
         is_used |-> FALSE, expires_at |-> now + MinutesPerDay])

\* create_discount_code(discount_percentage, user_id), code being the string drawn
create_discount_code(code, discount_percentage, u) ==
    Put(discount_codes, code,
        [user_id |-> u, discount_percentage |-> discount_percentage,
         is_used |-> FALSE, expires_at |-> now + DiscountLifetime])

\* spin_wheel_result: the limiter, then the attempt is recorded with the
\* expected_discount of the request, then a code is created for an allowed
\* percentage; code is the fresh string create_discount_code draws
SpinWheelResult(u, expected_discount, code) ==
    IF ~can_user_spin(u)
    THEN IF cleans_up(u)
         THEN /\ spin_attempts' = cleaned_spin_attempts(u)
              /\ disk' = disk_after_cleanup(u)
              /\ last' = Req("spin_wheel_result", u, 0, "limit", None)
              /\ Served
              /\ UNCHANGED <<products, cart_items, orders, discount_codes,
                             created, now, order_comments, running>>
         ELSE UNCHANGED vars
    ELSE LET wins == /\ expected_discount # 0
                     /\ expected_discount \in AllowedPercentages
         IN  /\ wins => code \notin DOMAIN discount_codes
             /\ spin_attempts'
                    = record_spin_attempt(u, get_next_spin_number(u),
                                          expected_discount)
             /\ discount_codes'
                    = IF wins
                      THEN create_discount_code(code, expected_discount, u)
                      ELSE discount_codes
             /\ disk' = disk_after_cleanup(u)
             /\ last' = Req("spin_wheel_result", u, 0,
                            IF expected_discount = 0 THEN "no_discount"
                            ELSE IF wins THEN "won" ELSE "invalid", None)
             /\ Served
             /\ UNCHANGED <<products, cart_items, orders, created, now,
                            order_comments, running>>

\* check_spin_status: reading the attempts drops (and saves) the older ones
CheckSpinStatus(u) ==
    IF cleans_up(u)
    THEN /\ spin_attempts' = cleaned_spin_attempts(u)
         /\ disk' = disk_after_cleanup(u)
         /\ last' = Req("check_spin_status", u, 0, None, None)
         /\ Served
         /\ UNCHANGED <<products, cart_items, orders, discount_codes, created,
                        now, order_comments, running>>
    ELSE UNCHANGED vars

\* reset_spin_attempts: the attempts of all users are cleared, the data saved and
\* loaded again
ResetSpinAttempts(u) ==
    /\ spin_attempts' = InitSpinAttempts
    /\ disk' = Snapshot(products, cart_items, orders, order_comments,
                        discount_codes, InitSpinAttempts)
    /\ last' = Req("reset_spin_attempts", u, 0, None, None)
    /\ Served
    /\ UNCHANGED <<products, cart_items, orders, discount_codes, created, now,
                   order_comments, running>>

\* the clock advances by d minutes between two requests
Tick(d) ==
    /\ now + d <= MaxNow
    /\ now' = now + d
    /\ UNCHANGED <<products, cart_items, orders, discount_codes, spin_attempts,
                   disk, created, last, served, order_comments, running>>

\* the users who spin the wheel in a run
Spinners == {"c2"}

\* The spin wheel: a customer spins, customers look at their status and reset
\* the attempts while the clock advances; the snapshot is reloaded at any time.
NextSpin ==
    \/ \E u \in Spinners, e \in SpinInputs, code \in CodePool :
           SpinWheelResult(u, e, code)
    \/ \E u \in Customers : CheckSpinStatus(u)
    \/ \E u \in Customers : ResetSpinAttempts(u)
    \/ \E d \in {1, SpinWindow} : Tick(d)
    \/ ReloadData

SpecSpin == Init /\ [][NextSpin]_vars

\* ---------------------------------------------------------------- promotions
\* a variant that still lists a product at its end date
get_promotional_products_until_end ==
    {p \in DOMAIN products :
        /\ products[p].is_active
        /\ products[p].is_promotional
        /\ products[p].promotional_end_date # NoDate
        /\ products[p].promotional_end_date[1] >= now}

\* get_promotional_products(): the products that are active and promotional and
\* whose end date is set and later than datetime.now()
get_promotional_products ==
    {p \in DOMAIN products :
        /\ products[p].is_active
        /\ products[p].is_promotional
        /\ products[p].promotional_end_date # NoDate
        /\ products[p].promotional_end_date[1] > now}

\* index: the home page lists the promotional products
IndexRoute ==
    /\ last' = Req("index", None, 0, get_promotional_products, None)
    /\ Served
    /\ UNCHANGED <<products, cart_items, orders, discount_codes, spin_attempts,
                   disk, created, now, order_comments, running>>

\* the end dates a product is given: none, before, at and after the first
\* reading of the clock, and an hour after it
PromoEnds == {NoDate, Date(0), Date(1), Date(2), Date(61)}

\* the catalogues get_promotional_products is applied to
Catalogues ==
    [ProductIds ->
        [vendor_id : {"v1"}, price : {10}, is_active : BOOLEAN,
         stock : {InitStock}, is_promotional : BOOLEAN,
         promotional_price : {5}, promotional_end_date : PromoEnds]]

InitPromo ==
    /\ products \in Catalogues
    /\ cart_items = EmptyFn
    /\ orders = EmptyFn
    /\ order_comments = EmptyFn
    /\ discount_codes = InitDiscountCodes
    /\ spin_attempts = InitSpinAttempts
    /\ disk = Snapshot(products, EmptyFn, EmptyFn, EmptyFn,
                       InitDiscountCodes, InitSpinAttempts)
    /\ created = 0
    /\ now = 1
    /\ served = 0
    /\ last = Req("init", None, 0, None, None)
    /\ running = NoRequests

NextPromo ==
    \/ IndexRoute
    \/ \E d \in {1, SpinWindow} : Tick(d)

SpecPromo == InitPromo /\ [][NextPromo]_vars

\* ---------------------------------------------------------------- pricing
\* Checkout over the catalogues: customers fill their carts and check out while
\* the clock passes the end dates of the promotions.
NextPricing ==
    \/ \E u \in Customers, p \in ProductIds : AddToCartRoute(u, p)
    \/ \E u \in Customers : Checkout(u, NoDiscountForm)
    \/ \E d \in {1, SpinWindow} : Tick(d)

\* add_product: a product without promotion has neither promotional price nor
\* end date (0 stands for None); a promotion has an end date and a promotional
\* price below the price
AddedProducts ==
    {r \in [vendor_id : {"v1"}, price : {10}, is_active : {TRUE},
            stock : {InitStock}, is_promotional : BOOLEAN,
            promotional_price : {0, 5}, promotional_end_date : PromoEnds] :
        IF r.is_promotional
        THEN r.promotional_price # 0 /\ r.promotional_end_date # NoDate
        ELSE r.promotional_price = 0 /\ r.promotional_end_date = NoDate}

InitPricing ==
    /\ products \in [ProductIds -> AddedProducts]
    /\ cart_items = EmptyFn
    /\ orders = EmptyFn
    /\ order_comments = EmptyFn
    /\ discount_codes = InitDiscountCodes
    /\ spin_attempts = InitSpinAttempts
    /\ disk = Snapshot(products, EmptyFn, EmptyFn, EmptyFn,
                       InitDiscountCodes, InitSpinAttempts)
    /\ created = 0
    /\ now = 1
    /\ served = 0
    /\ last = Req("init", None, 0, None, None)
    /\ running = NoRequests

SpecPricing == InitPricing /\ [][NextPricing]_vars

\* ---------------------------------------------------------------- featured
\* the products of a set in the order of the catalogue (products.values())
in_catalogue_order(S) == SelectSeq(ProductOrder, LAMBDA p : p \in S)

\* get_featured_products: regular = the active products whose flag is not set
regular_products ==
    {p \in DOMAIN products :
        products[p].is_active /\ ~products[p].is_promotional}

\* get_featured_products(limit): (promotional + regular)[:limit]
get_featured_products(limit) ==
    LET featured == in_catalogue_order(get_promotional_products)
                        \o in_catalogue_order(regular_products)
    IN  SubSeq(featured, 1, IF limit < Len(featured) THEN limit ELSE Len(featured))

\* the limits the list is asked with: the pages ask for 10
FeaturedLimits == {0, 1, 2, 10}

\* a page asks for the featured products; the request is recorded with its limit
\* (order) and the list returned (target)
GetFeaturedProducts(limit) ==
    /\ last' = Req("get_featured_products", None, limit,
                   get_featured_products(limit), None)
    /\ Served
    /\ UNCHANGED <<products, cart_items, orders, discount_codes, spin_attempts,
                   disk, created, now, order_comments, running>>

\* The featured list: products are toggled by the admin and listed while the
\* clock passes the end dates of the promotions.
NextFeatured ==
    \/ \E u \in Admins, p \in ProductIds : ToggleProduct(u, p)
    \/ \E limit \in FeaturedLimits : GetFeaturedProducts(limit)
    \/ \E d \in {1, SpinWindow} : Tick(d)

SpecFeatured == InitPricing /\ [][NextFeatured]_vars

\* ---------------------------------------------------------------- comments
\* get_order_comments(order_id): order_comments.get(order_id, [])
get_order_comments(o) ==
    IF o \in DOMAIN order_comments THEN order_comments[o] ELSE <<>>

\* a variant of add_order_comment that puts the comment in front
add_order_comment_in_front(o, u, message, user_role) ==
    Put(order_comments, o,
        <<OrderComment(o, u, message, user_role)>> \o get_order_comments(o))

\* add_order_comment: the thread of the order gains the comment at its end
add_order_comment(o, u, message, user_role) ==
    Put(order_comments, o,
        Append(get_order_comments(o), OrderComment(o, u, message, user_role)))

\* a variant of has_access that admits every vendor
has_access_any_vendor(u, o) ==
    LET user == get_user_by_id(u) IN
    \/ user.role = "admin"
    \/ user.role = "customer" /\ orders[o].customer_id = u
    \/ user.role \in {"seller", "vendor"}

\* order_comments: the access check
has_access(u, o) ==
    LET user == get_user_by_id(u) IN
    \/ user.role = "admin"
    \/ user.role = "customer" /\ orders[o].customer_id = u
    \/ /\ user.role \in {"seller", "vendor"}
       /\ \E i \in 1..Len(orders[o].items) :
              /\ orders[o].items[i].product_id \in DOMAIN products
              /\ products[orders[o].items[i].product_id].vendor_id = u

\* the messages a comment form is posted with
Messages == {"", "hello"}

\* order_comments (POST): a non-empty message of a user with access is appended;
\* nothing is saved
OrderCommentsPost(u, o, message) ==
    IF o \in DOMAIN orders /\ has_access(u, o) /\ message # ""
    THEN /\ order_comments'
                = add_order_comment(o, u, message, get_user_by_id(u).role)
         /\ last' = Req("order_comments", u, o, None, None)
         /\ Served
         /\ UNCHANGED <<products, cart_items, orders, discount_codes,
                        spin_attempts, disk, created, now, running>>
    ELSE UNCHANGED vars

\* Orders and their comment threads: customers order, every user posts comments,
\* orders are moved, cancelled and deleted, products deleted, and the snapshot
\* is reloaded at any time.
NextComments ==
    \/ \E u \in Customers, p \in ProductIds : AddToCartRoute(u, p)
    \/ \E u \in Customers : Checkout(u, NoDiscountForm)
    \/ \E u \in UserIds, o \in OrderIds, message \in Messages :
           OrderCommentsPost(u, o, message)
    \/ \E u \in UserIds, o \in OrderIds, v \in BOOLEAN : CheckoutPayment(u, o, v)
    \/ \E u \in UserIds, o \in OrderIds, t \in Targets :
           UpdateOrderStatusRoute(u, o, t)
    \/ \E u \in UserIds, o \in OrderIds : AdminDeleteOrder(u, o)
    \/ \E u \in UserIds, o \in OrderIds : CancelPendingOrder(u, o)
    \/ \E u \in Vendors, p \in ProductIds : DeleteProduct(u, p)
    \/ ReloadData

SpecComments == Init /\ [][NextComments]_vars

\* ---------------------------------------------------------------- round trip
\* Saving and loading: carts, orders with and without discounts, comments, spin
\* attempts and codes come into being, status changes save the dictionaries and
\* the data file is loaded at any time.
NextRoundTrip ==
    \/ \E u \in Customers, p \in ProductIds : AddToCartRoute(u, p)
    \/ \E u \in Customers, form \in CheckoutForms : Checkout(u, form)
    \/ \E u \in Customers, o \in OrderIds, message \in Messages :
           OrderCommentsPost(u, o, message)
    \/ \E u \in Spinners, e \in SpinInputs, code \in CodePool :
           SpinWheelResult(u, e, code)
    \/ \E u \in Admins, o \in OrderIds, t \in Targets :
           UpdateOrderStatusRoute(u, o, t)
    \/ \E u \in Admins, p \in ProductIds : ToggleProduct(u, p)
    \/ ReloadData

SpecRoundTrip == Init /\ [][NextRoundTrip]_vars

\* Saving under faults: orders are created and moved by the admin while the
\* process may stop inside save_data and start again from the data file, and
\* while a write of the data file may fail.
NextCrash ==
    \/ \E u \in Customers, p \in ProductIds : AddToCartRoute(u, p)
    \/ \E u \in Customers : Checkout(u, NoDiscountForm)
    \/ \E u \in Admins, o \in OrderIds, t \in Targets :
           UpdateOrderStatusRoute(u, o, t)
    \/ \E u \in Admins, o \in OrderIds, t \in Targets, point \in CrashPoints :
           CrashInSave(u, o, t, point)
    \/ \E u \in Admins, o \in OrderIds, t \in Targets, failure \in WriteFailures :
           UpdateOrderStatusSaveFails(u, o, t, failure)
    \/ ReloadData

SpecCrash == Init /\ [][NextCrash]_vars

\* the customer who places the orders of a run (the owner of discount code A)
Buyers == {"c1"}

\* Orders and the catalogue: a customer orders products added with and without
\* promotions, with and without a discount, while the admin toggles, edits and
\* deletes products and moves orders, promotions run out and the data file is
\* loaded at any time.
NextFrozen ==
    \/ \E u \in Buyers, p \in ProductIds : AddToCartRoute(u, p)
    \/ \E u \in Buyers, form \in CheckoutForms : Checkout(u, form)
    \/ \E u \in Admins, p \in ProductIds : ToggleProduct(u, p)
    \/ \E u \in Admins, p \in ProductIds : DeleteProduct(u, p)
    \/ \E u \in Vendors, p \in ProductIds : EditProduct(u, p)
    \/ \E u \in Admins, o \in OrderIds, t \in Targets :
           UpdateOrderStatusRoute(u, o, t)
    \/ \E u \in Buyers, o \in OrderIds : CancelPendingOrder(u, o)
    \/ \E d \in {1, SpinWindow} : Tick(d)
    \/ ReloadData

\* the catalogue of such a run: p1 was added without a promotion, p2 with a
\* promotion that ends one minute from now
FrozenCatalogue ==
    [p \in ProductIds |->
        [vendor_id |-> "v1", price |-> 20, is_active |-> TRUE, stock |-> InitStock,
         is_promotional |-> p = "p2",
         promotional_price |-> IF p = "p2" THEN 10 ELSE 0,
         promotional_end_date |-> IF p = "p2" THEN Date(2) ELSE NoDate]]

InitFrozen ==
    /\ products = FrozenCatalogue
    /\ cart_items = EmptyFn
    /\ orders = EmptyFn
    /\ order_comments = EmptyFn
    /\ discount_codes = InitDiscountCodes
    /\ spin_attempts = InitSpinAttempts
    /\ disk = Snapshot(FrozenCatalogue, EmptyFn, EmptyFn, EmptyFn,
                       InitDiscountCodes, InitSpinAttempts)
    /\ created = 0
    /\ now = 1
    /\ served = 0
    /\ last = Req("init", None, 0, None, None)
    /\ running = NoRequests

SpecFrozen == InitFrozen /\ [][NextFrozen]_vars

\* ------------------------------------------------------------ concurrent checkouts
\* app.run() serves each request in a thread of its own and the handlers take no
\* lock: a POST /checkout is a sequence of reads and writes of the shared
\* dictionaries, and another request's steps can fall between any two of them.

\* the requests that can be in progress at once
RequestSlots == {"r1", "r2"}

\* the forms of these requests: no discount, or the code typed into discount_code
ThreadForms ==
    {form \in CheckoutForms : form.applied_discount_code = ""}

\* a request that has read the cart and built order_items, subtotal and the
\* defaults of the discount block
checkout_thread(u, form) ==
    [user |-> u, form |-> form, pc |-> "validate", items |-> order_items(u),
     subtotal |-> items_total(order_items(u)), discount_percentage |-> 0,
     discount_amount |-> 0, total_amount |-> items_total(order_items(u)),
     applied |-> FALSE, order |-> 0, i |-> 1, stock_read |-> 0]

\* checkout(), up to the discount block: role, cart and order_items
CheckoutEnter(r, u, form) ==
    IF /\ r \notin DOMAIN running
       /\ created + Cardinality(DOMAIN running) < MaxOrders
       /\ role_required({"customer"}, u)
       /\ get_cart_items(u) # {}
    THEN /\ running' = Put(running, r, checkout_thread(u, form))
         /\ last' = Req("checkout_enter", u, 0, None, None)
         /\ Served
         /\ UNCHANGED <<products, cart_items, orders, order_comments,
                        discount_codes, spin_attempts, disk, created, now>>
    ELSE UNCHANGED vars

\* the elif discount_code branch: validate_discount_code and the amounts
CheckoutValidate(r) ==
    /\ r \in DOMAIN running
    /\ running[r].pc = "validate"
    /\ LET th == running[r]
           code == th.form.discount_code
       IN  IF code # "" /\ validate_discount_code(code, th.user) = "ok"
           THEN LET pct == discount_codes[get_discount_code(code)]
                               .discount_percentage
                    amount == (th.subtotal * pct) \div 100
                IN  running' = [running EXCEPT
                                   ![r].discount_percentage = pct,
                                   ![r].discount_amount = amount,
                                   ![r].total_amount = th.subtotal - amount,
                                   ![r].applied = TRUE, ![r].pc = "use"]
           ELSE running' = [running EXCEPT ![r].pc = "create"]
    /\ UNCHANGED <<products, cart_items, orders, order_comments, discount_codes,
                   spin_attempts, disk, created, now, last, served>>

\* use_discount_code after the successful validation
CheckoutUse(r) ==
    /\ r \in DOMAIN running
    /\ running[r].pc = "use"
    /\ discount_codes' =
           use_discount_code(running[r].form.discount_code, running[r].user)
    /\ running' = [running EXCEPT ![r].pc = "create"]
    /\ UNCHANGED <<products, cart_items, orders, order_comments, spin_attempts,
                   disk, created, now, last, served>>

\* create_order: the order and its thread of comments are stored
CheckoutCreate(r) ==
    /\ r \in DOMAIN running
    /\ running[r].pc = "create"
    /\ LET th == running[r]
           id == created + 1
       IN  /\ orders' = Put(orders, id,
                            Order(th.user, th.items, th.total_amount,
                                  IF th.applied
                                  THEN th.form.applied_discount_code ELSE None,
                                  th.discount_percentage,
                                  th.discount_amount, th.subtotal))
           /\ order_comments' = Put(order_comments, id, <<>>)
           /\ created' = id
           /\ running' = [running EXCEPT ![r].order = id, ![r].pc = "read"]
    /\ UNCHANGED <<products, cart_items, discount_codes, spin_attempts, disk,
                   now, last, served>>

\* product.stock -= quantity, first half: the stock is read
CheckoutReadStock(r) ==
    /\ r \in DOMAIN running
    /\ running[r].pc = "read"
    /\ running' = [running EXCEPT
                      ![r].stock_read =
                          products[running[r].items[running[r].i].product_id].stock,
                      ![r].pc = "write"]
    /\ UNCHANGED <<products, cart_items, orders, order_comments, discount_codes,
                   spin_attempts, disk, created, now, last, served>>

\* product.stock -= quantity, second half: the difference is stored; after the
\* last item the request is answered
CheckoutWriteStock(r) ==
    /\ r \in DOMAIN running
    /\ running[r].pc = "write"
    /\ LET th == running[r]
           item == th.items[th.i]
       IN  /\ products' = [products EXCEPT
                              ![item.product_id].stock = th.stock_read - item.quantity]
           /\ running' = IF th.i = Len(th.items)
                         THEN Remove(running, r)
                         ELSE [running EXCEPT ![r].i = th.i + 1, ![r].pc = "read"]
    /\ UNCHANGED <<cart_items, orders, order_comments, discount_codes,
                   spin_attempts, disk, created, now, last, served>>

\* the carts at the start of such a run: both customers hold product p1, each
\* with a quantity the stock allowed when it was put there
ThreadCarts ==
    {[k \in {<<"c1", "p1">>, <<"c2", "p1">>} |-> IF k[1] = "c1" THEN q1 ELSE q2] :
        q1 \in 1..InitStock, q2 \in 1..InitStock}

InitThreads ==
    /\ products = InitProducts
    /\ cart_items \in ThreadCarts
    /\ orders = EmptyFn
    /\ order_comments = EmptyFn
    /\ discount_codes = InitDiscountCodes
    /\ spin_attempts = InitSpinAttempts
    /\ disk = Snapshot(InitProducts, cart_items, EmptyFn, EmptyFn,
                       InitDiscountCodes, InitSpinAttempts)
    /\ created = 0
    /\ now = 0
    /\ served = 0
    /\ last = Req("init", None, 0, None, None)
    /\ running = NoRequests

\* Checkouts in parallel: up to two POST /checkout requests are in progress and
\* their steps interleave in every order.
NextThreads ==
    \/ \E r \in RequestSlots, u \in Customers, form \in ThreadForms :
           CheckoutEnter(r, u, form)
    \/ \E r \in RequestSlots : CheckoutValidate(r)
    \/ \E r \in RequestSlots : CheckoutUse(r)
    \/ \E r \in RequestSlots : CheckoutCreate(r)
    \/ \E r \in RequestSlots : CheckoutReadStock(r)
    \/ \E r \in RequestSlots : CheckoutWriteStock(r)

SpecThreads == InitThreads /\ [][NextThreads]_vars

\* ------------------------------------------------------------------ the workflow
\* the carts at the start of a workflow run: c1 holds p1, whose vendor is v1,
\* with a quantity the stock allows, and c2 holds one unit of p2
WorkflowCarts ==
    {[k \in {<<"c1", "p1">>, <<"c2", "p2">>} |-> IF k[1] = "c1" THEN q ELSE 1] :
        q \in 1..MaxQty}

\* the order c1's checkout creates from such a cart
workflow_order(q) ==
    Order("c1", <<[product_id |-> "p1", quantity |-> q,
                   price |-> InitProducts["p1"].price,
                   total |-> InitProducts["p1"].price * q]>>,
          InitProducts["p1"].price * q, None, 0, 0, InitProducts["p1"].price * q)

\* The process starts from a data file written either before c1 has checked
\* out, or after: the order is pending, the stock is decremented and the cart
\* is still populated.
InitWorkflow ==
    /\ cart_items \in WorkflowCarts
    /\ \E ordered \in BOOLEAN :
           /\ products = IF ordered
                         THEN [InitProducts EXCEPT
                                  !["p1"].stock = @ - cart_items[<<"c1", "p1">>]]
                         ELSE InitProducts
           /\ orders = IF ordered
                       THEN Put(EmptyFn, 1, workflow_order(cart_items[<<"c1", "p1">>]))
                       ELSE EmptyFn
           /\ order_comments = IF ordered THEN Put(EmptyFn, 1, <<>>) ELSE EmptyFn
           /\ created = IF ordered THEN 1 ELSE 0
    /\ discount_codes = InitDiscountCodes
    /\ spin_attempts = InitSpinAttempts
    /\ disk = Snapshot(products, cart_items, orders, order_comments,
                       InitDiscountCodes, InitSpinAttempts)
    /\ now = 0
    /\ served = 0
    /\ last = Req("init", None, 0, None, None)
    /\ running = NoRequests

\* The workflow of an order: checkout, payment (valid or not), the vendor's and
\* the admin's approval and the confirmation of delivery, each tried by every
\* user.
NextWorkflow ==
    \/ \E u \in UserIds : Checkout(u, NoDiscountForm)
    \/ \E u \in UserIds, o \in OrderIds, v \in BOOLEAN : CheckoutPayment(u, o, v)
    \/ \E u \in UserIds, o \in OrderIds : VendorApproveReceipt(u, o)
    \/ \E u \in UserIds, o \in OrderIds : AdminApproveOrder(u, o)
    \/ \E u \in UserIds, o \in OrderIds : CustomerConfirmDelivery(u, o)

SpecWorkflow == InitWorkflow /\ [][NextWorkflow]_vars

\* ------------------------------------------------------------- the code generator
\* create_discount_code step by step: each pass of its while loop draws a string
\* and leaves the loop when the string is no key of discount_codes.

\* the calls in progress
CodeSlots == {"r1"}

\* the percentages the calls are made with
CodePercentages == {10, 50}

\* create_discount_code is entered
CreateDiscountCodeCall(r, discount_percentage, u) ==
    /\ r \notin DOMAIN running
    /\ running' = Put(running, r,
                      [pc |-> "draw", user |-> u,
                       discount_percentage |-> discount_percentage,
                       code |-> None])
    /\ last' = Req("create_discount_code", u, 0, None, None)
    /\ Served
    /\ UNCHANGED <<products, cart_items, orders, order_comments, discount_codes,
                   spin_attempts, disk, created, now>>

\* one pass of the loop: a string that is a key already is drawn again, any
\* other string ends the loop and the new DiscountCode is stored under it
DrawCode(r, code) ==
    /\ r \in DOMAIN running
    /\ running[r].pc = "draw"
    /\ IF code \notin DOMAIN discount_codes
       THEN /\ discount_codes' =
                   create_discount_code(code, running[r].discount_percentage,
                                        running[r].user)
            /\ running' = Remove(running, r)
            /\ last' = Req("create_discount_code", running[r].user, 0, code, None)
       ELSE /\ running' = [running EXCEPT ![r].code = code]
            /\ UNCHANGED <<discount_codes, last>>
    /\ UNCHANGED <<products, cart_items, orders, order_comments, spin_attempts,
                   disk, created, now, served>>

\* the code stores a call can find: any part of the pool is taken already
TakenCodes ==
    {[c \in S |-> [user_id |-> "c1", discount_percentage |-> 10,
                   is_used |-> (c = "B"), expires_at |-> DiscountLifetime]] :
        S \in SUBSET CodePool}

InitCodes ==
    /\ products = InitProducts
    /\ cart_items = EmptyFn
    /\ orders = EmptyFn
    /\ order_comments = EmptyFn
    /\ discount_codes \in TakenCodes
    /\ spin_attempts = InitSpinAttempts
    /\ disk = Snapshot(InitProducts, EmptyFn, EmptyFn, EmptyFn,
                       discount_codes, InitSpinAttempts)
    /\ created = 0
    /\ now = 0
    /\ served = 0
    /\ last = Req("init", None, 0, None, None)
    /\ running = NoRequests

\* Codes are created one call after the other while the clock advances.
NextCodes ==
    \/ \E r \in CodeSlots, pct \in CodePercentages, u \in Spinners :
           CreateDiscountCodeCall(r, pct, u)
    \/ \E r \in CodeSlots, code \in CodePool : DrawCode(r, code)
    \/ Tick(SpinWindow)

\* a pass of the loop that draws a string not yet taken
DrawUnused ==
    \E r \in CodeSlots, code \in CodePool :
        code \notin DOMAIN discount_codes /\ DrawCode(r, code)

\* random.choices gives every string a positive probability in every pass, so a
\* string that is not taken is not passed over for ever
SpecCodes == InitCodes /\ [][NextCodes]_vars /\ WF_vars(DrawUnused)

\* ---------------------------------------------------------------- properties
Role(u) == users[u].role

\* the routes that end in _perform_status_update
StatusRequests ==
    {"vendor_approve_receipt", "admin_approve_order", "update_order_status_route",
     "customer_confirm_delivery", "checkout_payment"}

\* this step carries out a request
Carried == served' # served

\* the role table: (role, status before, status after)
RoleTable ==
    LET admin_rows == {x \in {"admin"} \X (Statuses \ {"cancelled"}) \X Statuses :
                          x[2] # x[3]}
    IN  {<<"customer", "pending", "receipt_pending">>,
         <<"customer", "approved", "delivered">>,
         <<"vendor", "receipt_pending", "admin_review">>} \cup admin_rows

\* the order's status differs before and after the step
StatusChanged(o) ==
    /\ o \in DOMAIN orders
    /\ o \in DOMAIN orders'
    /\ orders'[o].status # orders[o].status

\* C1 (1): a status request whose (role, status, target) is not in the role table
\* is answered False by _perform_status_update.
C1Rejected ==
    \A u \in UserIds, o \in DOMAIN orders, t \in Targets :
        <<Role(u), orders[o].status, t>> \notin RoleTable
            => ~perform_status_update_ok(o, t, u)

\* C1 (2): whenever an order's status changes from s to t, the step is a status
\* request for that order and target by a user of role r with (r, s, t) in the
\* role table, and nothing else of the order changes; every status request that
\* is carried out is such a step.
C1Step ==
    /\ \A o \in OrderIds :
           StatusChanged(o)
               => /\ last'.op \in StatusRequests
                  /\ last'.order = o
                  /\ last'.target = orders'[o].status
                  /\ last'.user \in UserIds
                  /\ <<Role(last'.user), orders[o].status, orders'[o].status>>
                         \in RoleTable
                  /\ orders' = [orders EXCEPT ![o].status = last'.target]
    /\ (Carried /\ last'.op \in StatusRequests) => StatusChanged(last'.order)

\* C1: _perform_status_update changes an order's status from s to t for a user of
\* role r only if (r, s, t) is in the role table; every other request is rejected
\* and leaves the state unchanged.
C1Theorem == []C1Rejected /\ [][C1Step]_vars

\* a customer has confirmed the delivery of an approved order
C1Witness ==
    /\ last.op = "customer_confirm_delivery"
    /\ last.old = "approved"
    /\ last.order \in DOMAIN orders
    /\ orders[last.order].status = "delivered"

\* C2 (1): a customer's status request on an order of another customer is
\* answered False.
C2Rejected ==
    \A u \in Customers, o \in DOMAIN orders, t \in Targets :
        orders[o].customer_id # u => ~perform_status_update_ok(o, t, u)

\* C2 (2): no request carried out for a customer changes or removes an order of
\* another customer.
C2Step ==
    \A o \in DOMAIN orders :
        (Carried /\ last'.user \in Customers /\ orders[o].customer_id # last'.user)
            => (o \in DOMAIN orders' /\ orders'[o] = orders[o])

\* C2: a customer's request on an order whose customer_id is another customer is
\* always rejected and leaves that order unchanged.
C2Theorem == []C2Rejected /\ [][C2Step]_vars

\* an approved order of one customer, which the table lets a customer move to
\* delivered, while there is another customer to ask for it
C2Witness ==
    \E o \in DOMAIN orders, u \in Customers :
        /\ orders[o].customer_id # u
        /\ orders[o].status = "approved"
        /\ <<"customer", orders[o].status, "delivered">> \in RoleTable

\* some line item of the order is a product of the catalogue sold by vendor v
SellsLineItem(v, order) ==
    {order.items[i].product_id : i \in DOMAIN order.items}
        \cap {p \in DOMAIN products : products[p].vendor_id = v} # {}

\* C3 (1): on an order in receipt_pending, the vendor's request for admin_review is
\* answered True exactly when the vendor sells one of its line items.
C3Iff ==
    \A v \in Vendors, o \in DOMAIN orders :
        orders[o].status = "receipt_pending"
            => (perform_status_update_ok(o, "admin_review", v)
                    <=> SellsLineItem(v, orders[o]))

\* C3 (2): every vendor approval carried out moves a receipt_pending order with a
\* line item of that vendor to admin_review.
C3Step ==
    (Carried /\ last'.op = "vendor_approve_receipt")
        => /\ last'.user \in Vendors
           /\ last'.order \in DOMAIN orders
           /\ orders[last'.order].status = "receipt_pending"
           /\ SellsLineItem(last'.user, orders[last'.order])
           /\ orders'[last'.order].status = "admin_review"

\* C3: a vendor's request receipt_pending -> admin_review on an order succeeds if
\* and only if some line item's product has vendor_id equal to that vendor.
C3Theorem == []C3Iff /\ [][C3Step]_vars

\* a vendor has approved the receipt of an order that holds one of its products
C3Witness ==
    /\ last.op = "vendor_approve_receipt"
    /\ last.order \in DOMAIN orders
    /\ orders[last.order].status = "admin_review"
    /\ SellsLineItem(last.user, orders[last.order])

\* the order is cancelled after the step and was not before it
EntersCancelled(o) ==
    /\ o \in DOMAIN orders'
    /\ orders'[o].status = "cancelled"
    /\ (o \in DOMAIN orders => orders[o].status # "cancelled")

\* C4 as stated: an order enters cancelled only from pending or receipt_pending,
\* and only through a request made by an admin.
C4Original ==
    [][\A o \in OrderIds :
           EntersCancelled(o)
               => /\ o \in DOMAIN orders
                  /\ orders[o].status \in {"pending", "receipt_pending"}
                  /\ last'.user \in Admins]_vars

\* C4, amended: an order enters cancelled only through a status request made by an
\* admin, from any of pending, receipt_pending, admin_review, approved, delivered.
C4Theorem ==
    [][\A o \in OrderIds :
           EntersCancelled(o)
               => /\ o \in DOMAIN orders
                  /\ orders[o].status \in Statuses \ {"cancelled"}
                  /\ last'.op \in StatusRequests
                  /\ last'.order = o
                  /\ last'.target = "cancelled"
                  /\ last'.user \in Admins]_vars

\* an admin has cancelled an approved order
C4Witness ==
    /\ last.op = "update_order_status_route"
    /\ last.user \in Admins
    /\ last.old = "approved"
    /\ last.order \in DOMAIN orders
    /\ orders[last.order].status = "cancelled"

\* the admin's request to move order o to status t is accepted and does so
AdminCanMove(a, o, t) ==
    /\ perform_status_update_ok(o, t, a)
    /\ (served < MaxRequests
        => ENABLED (UpdateOrderStatusRoute(a, o, t) /\ orders'[o].status = t))

C6StockNonNegative == \A p \in DOMAIN products : products[p].stock >= 0

\* the sum of f[1] .. f[n]
RECURSIVE SumTo(_, _)
SumTo(f, n) == IF n = 0 THEN 0 ELSE f[n] + SumTo(f, n - 1)

\* the quantity the line items ask of product p
LineQuantity(items, p) ==
    SumTo([i \in DOMAIN items |->
              IF items[i].product_id = p THEN items[i].quantity ELSE 0],
          Len(items))

\* the sum of quantity * price over the line items
LineSum(items) ==
    SumTo([i \in DOMAIN items |-> items[i].quantity * items[i].price], Len(items))

\* C7: creating an order with line items (p_i, qty_i, price_i) yields a new order
\* in status pending, lowers the stock of each product p_i of the catalogue by
\* exactly qty_i, changes nothing else of any product, and records the subtotal
\* sum of qty_i * price_i.
C7Theorem ==
    [][(Carried /\ last'.op = "checkout")
          => /\ last'.order \notin DOMAIN orders
             /\ DOMAIN orders' = DOMAIN orders \cup {last'.order}
             /\ \A o \in DOMAIN orders : orders'[o] = orders[o]
             /\ orders'[last'.order].status = "pending"
             /\ orders'[last'.order].customer_id = last'.user
             /\ orders'[last'.order].subtotal
                    = LineSum(orders'[last'.order].items)
             /\ DOMAIN products' = DOMAIN products
             /\ \A p \in DOMAIN products :
                    products'[p]
                        = [products[p] EXCEPT
                              !.stock = products[p].stock
                                  - LineQuantity(orders'[last'.order].items, p)]]_vars

\* an order of two line items, one of quantity 2, has just been created and has
\* taken two units of that product
C7Witness ==
    /\ last.op = "checkout"
    /\ last.order \in DOMAIN orders
    /\ Len(orders[last.order].items) = 2
    /\ \E i \in DOMAIN orders[last.order].items :
           LET item == orders[last.order].items[i] IN
           /\ item.quantity = 2
           /\ item.product_id \in DOMAIN products
           /\ products[item.product_id].stock = InitStock - 2

\* the requests that move, cancel or delete an order
LifecycleRequests ==
    StatusRequests \cup {"cancel_pending_order", "admin_delete_order"}

\* C8: no status transition, no customer cancellation of a pending order and no
\* order deletion changes the stock of any product.
C8Theorem ==
    [][(Carried /\ last'.op \in LifecycleRequests)
          => /\ DOMAIN products' = DOMAIN products
             /\ \A p \in DOMAIN products :
                    products'[p].stock = products[p].stock]_vars

\* a customer has cancelled a pending order and the units it took are still
\* missing from the stock
C8Witness ==
    /\ last.op = "cancel_pending_order"
    /\ last.order \notin DOMAIN orders
    /\ \E p \in DOMAIN products : products[p].stock < InitStock

\* C9 as stated: an order is removed from the store only while its status is
\* cancelled.
C9Original ==
    [][\A o \in DOMAIN orders :
           o \notin DOMAIN orders' => orders[o].status = "cancelled"]_vars

\* C9, amended: an order leaves the store only when an admin deletes it while it
\* is cancelled, when its own customer cancels it while it is pending, or when
\* reload_data replaces the store by a saved snapshot that does not hold it.
C9Theorem ==
    [][\A o \in DOMAIN orders :
           o \notin DOMAIN orders'
               => \/ /\ last'.op = "admin_delete_order"
                     /\ last'.order = o
                     /\ last'.user \in Admins
                     /\ orders[o].status = "cancelled"
                  \/ /\ last'.op = "cancel_pending_order"
                     /\ last'.order = o
                     /\ last'.user = orders[o].customer_id
                     /\ orders[o].status = "pending"
                  \/ /\ last'.op = "reload_data"
                     /\ o \notin DOMAIN disk.orders]_vars

\* an admin has deleted a cancelled order
C9Witness ==
    /\ last.op = "admin_delete_order"
    /\ last.old = "cancelled"
    /\ last.order \notin DOMAIN orders

\* C10 as stated: each discount code is consumed at most once: at most one order
\* carries a given code with a non-zero discount.
C10UsedOnce ==
    \A c \in DOMAIN discount_codes :
        Cardinality({o \in DOMAIN orders :
                        /\ orders[o].discount_code = c
                        /\ orders[o].discount_amount # 0}) <= 1

\* the order carries discount fields: a code, a percentage and an amount
CarriesDiscount(order) ==
    /\ order.discount_code # None
    /\ order.discount_percentage > 0
    /\ order.discount_amount > 0

\* some code of the store passes validation for user u
HoldsValidCode(u) ==
    \E c \in DOMAIN discount_codes : validate_discount_code(c, u) = "ok"

\* C11 as stated: an order created at checkout carries discount fields only if a
\* code passed validation for the ordering customer at checkout time; otherwise it
\* is created with no discount and total = subtotal.
C11ValidatedDiscount ==
    [][(Carried /\ last'.op = "checkout")
          => LET order == orders'[last'.order] IN
             IF HoldsValidCode(last'.user)
             THEN TRUE
             ELSE /\ ~CarriesDiscount(order)
                  /\ order.total_amount = order.subtotal]_vars

\* a used code fails validation for every user, with the already-used message for
\* its owner
UsedCodesFail ==
    \A c \in DOMAIN discount_codes, u \in UserIds :
        discount_codes[c].is_used
            => /\ validate_discount_code(c, u) # "ok"
               /\ (u = discount_codes[c].user_id
                   => validate_discount_code(c, u)
                          = "Discount code has already been used")

\* no step clears the used flag of a code or drops a used code
UsedStaysUsed ==
    \A c \in DOMAIN discount_codes :
        discount_codes[c].is_used
            => (c \in DOMAIN discount_codes' /\ discount_codes'[c].is_used)

\* C12 as stated: once the used flag of a discount code is set it is never cleared
\* by any operation, and every later validation of the code fails, with the
\* already-used message for the owner.
C12UsedForever == []UsedCodesFail /\ [][UsedStaysUsed]_vars

\* the failure messages of validation, in the order NotFound, AlreadyUsed,
\* WrongOwner, Expired
ValidationFailures ==
    <<"Invalid discount code", "Discount code has already been used",
      "Discount code is not valid for this user", "Discount code has expired">>

\* which of the four failures apply to the code looked up as c for user u
FailureApplies(c, u) ==
    IF c \notin DOMAIN discount_codes THEN <<TRUE, FALSE, FALSE, FALSE>>
    ELSE <<FALSE, discount_codes[c].is_used, discount_codes[c].user_id # u,
           now > discount_codes[c].expires_at>>

\* the first failure that applies
FirstFailure(c, u) ==
    LET i == CHOOSE i \in 1..4 :
                 /\ FailureApplies(c, u)[i]
                 /\ \A j \in 1..(i - 1) : ~FailureApplies(c, u)[j]
    IN  ValidationFailures[i]

\* what the claim expects of validate_discount_code(code, u)
ExpectedValidation(code, u) ==
    LET c == Upper(code) IN
    IF /\ c \in DOMAIN discount_codes
       /\ ~discount_codes[c].is_used
       /\ discount_codes[c].user_id = u
       /\ now <= discount_codes[c].expires_at
    THEN "ok"
    ELSE FirstFailure(c, u)

\* C13 (1): the function answers as expected on every input.
C13Function ==
    \A u \in UserIds, code \in CodeInputs :
        validate_discount_code(code, u) = ExpectedValidation(code, u)

\* C13 (2): a validation request for a non-empty code is answered as expected and
\* changes no store.
C13Step ==
    (Carried /\ last'.op = "validate_discount_code" /\ last'.old # "")
        => /\ last'.target = ExpectedValidation(last'.old, last'.user)
           /\ UNCHANGED mem

\* C13: validate_discount_code(code, user) succeeds iff the code exists, is unused,
\* is owned by user and now <= expiry; otherwise it fails with the first applicable
\* reason in the order NotFound, AlreadyUsed, WrongOwner, Expired.
C13Theorem == []C13Function /\ [][C13Step]_vars

\* an unused, unexpired code of one customer has been validated by another user
\* and the answer was the wrong-owner message
C13Witness ==
    /\ last.op = "validate_discount_code"
    /\ last.old = "A"
    /\ ~discount_codes["A"].is_used
    /\ now <= discount_codes["A"].expires_at
    /\ last.user # discount_codes["A"].user_id
    /\ last.target = "Discount code is not valid for this user"

\* C14 as stated: every order created by checkout satisfies discount_amount =
\* subtotal * discount_percentage / 100 and total_amount = subtotal -
\* discount_amount, for every checkout input.
C14Arithmetic ==
    [][(Carried /\ last'.op = "checkout")
          => LET order == orders'[last'.order] IN
             /\ order.discount_amount * 100
                    = order.subtotal * order.discount_percentage
             /\ order.total_amount = order.subtotal - order.discount_amount]_vars

\* the percentages a discount code may carry
ValidPercentages == {5, 10, 15, 20, 25, 30, 50}

\* every discount code in the store has a percentage of the allowed set
C15Codes ==
    \A c \in DOMAIN discount_codes :
        discount_codes[c].discount_percentage \in ValidPercentages

\* a spin request with a percentage outside the allowed set creates no code,
\* and one that passed the limiter with such a percentage other than 0 (no
\* discount) is answered with the invalid-percentage error
C15Step ==
    \A u \in Spinners, e \in SpinInputs \ ValidPercentages, code \in CodePool :
        (SpinWheelResult(u, e, code) /\ Carried)
            => /\ discount_codes' = discount_codes
               /\ (can_user_spin(u) /\ e # 0) => last'.target = "invalid"

\* C15: creating a discount code with a percentage outside {5,10,15,20,25,30,50}
\* fails with the invalid-discount-value error and creates no code; every
\* discount code in the store has a percentage in that set.
C15Theorem == []C15Codes /\ [][C15Step]_vars

\* a spin with a percentage outside the set was answered with the error, and the
\* store holds the seeded code only
C15Witness ==
    /\ last.op = "spin_wheel_result"
    /\ last.target = "invalid"
    /\ DOMAIN discount_codes = {"A"}
    /\ \E i \in 1..Len(stored_attempts(last.user)) :
           stored_attempts(last.user)[i].result_discount \notin ValidPercentages

\* the attempts user u has on record whose timestamps lie in the 5 minutes
\* that end at time t
AttemptsInWindow(u, t) ==
    {i \in 1..Len(stored_attempts(u)) :
        /\ stored_attempts(u)[i].timestamp > t - SpinWindow
        /\ stored_attempts(u)[i].timestamp <= t}

\* no user has more than 3 attempts on record in any trailing window
C16Window ==
    \A u \in UserIds, t \in 0..MaxNow :
        Cardinality(AttemptsInWindow(u, t)) <= MaxSpins

\* a spin request of a user with 3 attempts in the trailing window records no
\* attempt and creates no code
C16Step ==
    \A u \in Spinners, e \in SpinInputs, code \in CodePool :
        (SpinWheelResult(u, e, code)
            /\ Cardinality(AttemptsInWindow(u, now)) >= MaxSpins)
            => /\ Len(spin_attempts'[u]) <= Len(spin_attempts[u])
               /\ discount_codes' = discount_codes

\* C16: after any sequence of requests no user has more than 3 recorded spin
\* attempts with timestamps within any trailing 5-minute window, and a spin
\* request of a user who has 3 attempts in the trailing 5 minutes is rejected
\* and records nothing.
C16Theorem == []C16Window /\ [][C16Step]_vars

\* a user has spun three times within the window, the clock has advanced and
\* the three attempts are still in the trailing window
C16Witness ==
    /\ last.op = "spin_wheel_result"
    /\ now > 0
    /\ Cardinality(AttemptsInWindow(last.user, now)) = MaxSpins
    /\ \E i \in AttemptsInWindow(last.user, now) :
           stored_attempts(last.user)[i].timestamp < now

\* the user has 3 attempts on record, all of them within the last 5 minutes
ThreeWithinWindow(u) ==
    /\ Len(stored_attempts(u)) = MaxSpins
    /\ \A i \in 1..MaxSpins : now - stored_attempts(u)[i].timestamp < SpinWindow

\* more than 5 minutes have elapsed since every attempt on record
AllElapsed(u) ==
    \A i \in 1..Len(stored_attempts(u)) :
        now - stored_attempts(u)[i].timestamp > SpinWindow

\* C17: a user with 3 recorded attempts within the last 5 minutes cannot spin;
\* once more than 5 minutes have elapsed since all of them, the user can spin
\* and the count of recent attempts is 0.
C17Theorem ==
    \A u \in UserIds :
        /\ ThreeWithinWindow(u) => ~can_user_spin(u)
        /\ AllElapsed(u)
               => can_user_spin(u) /\ Len(get_user_spin_attempts(u)) = 0

\* a user's three attempts have all become more than 5 minutes old
C17Witness ==
    \E u \in UserIds :
        /\ Len(stored_attempts(u)) = MaxSpins
        /\ AllElapsed(u)
        /\ can_user_spin(u)

\* the outcomes of the wheel
SpinOutcomes == {0, 5, 10, 15, 20, 25, 30}

\* C18 as stated: the result of every recorded spin attempt is one of the fixed
\* outcomes {0,5,10,15,20,25,30} chosen by the server; no request input causes
\* an attempt with a result outside that set to be recorded.
C18ServerChosen ==
    \A u \in DOMAIN spin_attempts :
        \A i \in 1..Len(spin_attempts[u]) :
            spin_attempts[u][i].result_discount \in SpinOutcomes

\* the codes a step adds to the store
NewCodes == DOMAIN discount_codes' \ DOMAIN discount_codes

\* a spin request that recorded an attempt with result e for user u: for e > 0
\* exactly one code is new, owned by u with percentage e; for e = 0 none is
C19Step ==
    \A u \in Spinners, e \in SpinInputs, code \in CodePool :
        (SpinWheelResult(u, e, code) /\ Carried /\ last'.target # "limit")
            => IF e > 0
               THEN /\ Cardinality(NewCodes) = 1
                    /\ \A c \in NewCodes :
                           /\ discount_codes'[c].user_id = u
                           /\ discount_codes'[c].discount_percentage = e
               ELSE NewCodes = {}

\* C19 as stated: every accepted spin request that records an attempt with
\* result > 0 creates exactly one new discount code, owned by the spinning user
\* with percentage equal to the result, and an attempt with result 0 creates
\* none.
C19OneCodePerWin == [][C19Step]_vars

\* the products that are promotional at time t: active, is_promotional set,
\* promotional_end_date set and later than t
PromotionalAt(t) ==
    {p \in ProductIds :
        /\ products[p].is_active
        /\ products[p].is_promotional
        /\ Len(products[p].promotional_end_date) = 1
        /\ products[p].promotional_end_date[1] > t}

\* get_promotional_products() is that set; a product whose end date has just
\* passed is not in it, and an active promotional product whose end date is an
\* hour ahead is
C20Function ==
    /\ get_promotional_products = PromotionalAt(now)
    /\ \A p \in ProductIds :
           /\ products[p].promotional_end_date = Date(now - 1)
                  => p \notin get_promotional_products
           /\ (/\ products[p].is_active
               /\ products[p].is_promotional
               /\ products[p].promotional_end_date = Date(now + 60))
                  => p \in get_promotional_products

\* the home page is handed that set
C20Step ==
    (Carried /\ last'.op = "index") => last'.target = PromotionalAt(now)

\* C20: get_promotional_products() returns exactly the active products with
\* is_promotional set, promotional_end_date set and promotional_end_date > now;
\* a product whose end date is just past is excluded and one whose end date is
\* an hour ahead is included.
C20Theorem == []C20Function /\ [][C20Step]_vars

\* the home page listed one product and left out an active promotional product
\* whose promotion ended at this very minute
C20Witness ==
    /\ last.op = "index"
    /\ last.target = {"p1"}
    /\ products["p2"].is_active
    /\ products["p2"].is_promotional
    /\ products["p2"].promotional_end_date = Date(now)
    /\ products["p1"].promotional_end_date = Date(now + 60)

\* the unit price of product p while its promotion runs (flag set, end date set
\* and later than now) is its promotional price, and its base price otherwise
PriceDue(p) ==
    IF /\ products[p].is_promotional
       /\ products[p].promotional_price # 0
       /\ Len(products[p].promotional_end_date) = 1
       /\ products[p].promotional_end_date[1] > now
    THEN products[p].promotional_price
    ELSE products[p].price

\* C21 as stated: at checkout each line item's unit price is the product's
\* promotional price if the product is currently promotional (flag set, end date
\* set and later than now) and the base price otherwise; a product whose
\* promotional window has expired is charged at base price.
C21PriceAtCheckout ==
    [][(Carried /\ last'.op = "checkout")
          => LET items == orders'[last'.order].items IN
             \A i \in 1..Len(items) :
                 items[i].price = PriceDue(items[i].product_id)]_vars

\* the active products that are not promotional at the moment
ActiveOthers ==
    {p \in DOMAIN products : products[p].is_active} \ PromotionalAt(now)

\* all currently promotional active products in catalogue order, then the
\* remaining active products in catalogue order, truncated to limit
FeaturedDue(limit) ==
    LET all == SelectSeq(ProductOrder, LAMBDA p : p \in PromotionalAt(now))
                   \o SelectSeq(ProductOrder, LAMBDA p : p \in ActiveOthers)
    IN  [i \in 1..(IF limit < Len(all) THEN limit ELSE Len(all)) |-> all[i]]

\* C22 as stated: get_featured_products(limit) is the list of all currently
\* promotional active products in catalogue order followed by the remaining
\* active non-promotional products in catalogue order, truncated to limit, with
\* no inactive product and no product twice.
C22FeaturedList ==
    \A limit \in FeaturedLimits : get_featured_products(limit) = FeaturedDue(limit)

\* a vendor's toggle, edit or delete request that is carried out names a product
\* of that vendor
C23Step ==
    \A u \in Vendors, p \in ProductIds :
        ((ToggleProduct(u, p) \/ EditProduct(u, p) \/ DeleteProduct(u, p))
            /\ Carried)
            => products[p].vendor_id = u

\* C23 as stated: a vendor's request to toggle, edit or delete a product takes
\* effect only if the product's vendor_id is that vendor; a vendor acting on
\* another vendor's product is rejected with the product unchanged.
C23OwnProductsOnly == [][C23Step]_vars

\* the poster is an admin, the customer of the order, or the vendor of the
\* product of one of its line items
MayComment(u, o) ==
    \/ u \in Admins
    \/ u \in Customers /\ orders[o].customer_id = u
    \/ /\ u \in Vendors
       /\ \E i \in 1..Len(orders[o].items) :
              InitProducts[orders[o].items[i].product_id].vendor_id = u

\* a thread that grows in a step grows by one comment of the request's user,
\* and that user may comment on the order
C24Step ==
    \A o \in DOMAIN order_comments :
        (o \in DOMAIN order_comments'
            /\ Len(order_comments'[o]) > Len(order_comments[o]))
            => /\ last'.op = "order_comments"
               /\ last'.order = o
               /\ MayComment(last'.user, o)
               /\ Len(order_comments'[o]) = Len(order_comments[o]) + 1
               /\ order_comments'[o][Len(order_comments'[o])].user_id
                      = last'.user

\* a post of a user who may not comment leaves every thread as it was
C24Rejected ==
    \/ order_comments' = order_comments
    \/ \A u \in UserIds, o \in DOMAIN orders, message \in Messages :
           (~MayComment(u, o) /\ OrderCommentsPost(u, o, message))
               => order_comments' = order_comments

\* C24: a comment is appended to an order's thread only when the poster is an
\* admin, the customer owning the order or a vendor owning the product of one
\* of its line items; any other user's post is rejected and the thread is
\* unchanged.
C24Theorem == [][C24Step /\ C24Rejected]_vars

\* a vendor has commented on an order that holds one of the vendor's products
\* and none of the other vendor's
C24Witness ==
    /\ last.op = "order_comments"
    /\ last.user \in Vendors
    /\ last.order \in DOMAIN orders
    /\ \A i \in 1..Len(orders[last.order].items) :
           InitProducts[orders[last.order].items[i].product_id].vendor_id
               = last.user
    /\ Len(get_order_comments(last.order)) = 1
    /\ get_order_comments(last.order)[1].user_id = last.user

\* the requests of the order lifecycle: creation, comment posts, status
\* transitions, cancellation and deletion
ThreadRequests == LifecycleRequests \cup {"checkout", "order_comments"}

\* thread s is a prefix of thread t, comment by comment
IsPrefix(s, t) ==
    /\ Len(s) <= Len(t)
    /\ \A i \in 1..Len(s) : s[i] = t[i]

\* C25: each order's comment thread is append-only: across comment posts, status
\* transitions, cancellation and deletion the thread before the operation is a
\* prefix of the thread after it, with every comment's order id, user id, role
\* and message unchanged.
C25Theorem ==
    [][(Carried /\ last'.op \in ThreadRequests)
          => \A o \in DOMAIN order_comments :
                 /\ o \in DOMAIN order_comments'
                 /\ IsPrefix(order_comments[o], order_comments'[o])]_vars

\* a second comment has been posted to a thread by another user
C25Witness ==
    /\ last.op = "order_comments"
    /\ Len(get_order_comments(last.order)) = 2
    /\ get_order_comments(last.order)[1].user_id # last.user
    /\ get_order_comments(last.order)[2].user_id = last.user

\* the snapshot save_data would write of the state after the step
SavedNow ==
    Snapshot(products', cart_items', orders', order_comments', discount_codes',
             spin_attempts')

\* C26 as stated: after every completed order-lifecycle mutation (order creation
\* with its stock decrement, status change, cancellation, deletion, comment
\* append) the persisted snapshot equals the in-memory state, so that a reload
\* loses no order, stock change or comment.
C26SavedAfterMutation ==
    [][(Carried /\ last'.op \in ThreadRequests) => disk' = SavedNow]_vars

\* the dictionaries in memory
InMemory ==
    [products |-> products, cart_items |-> cart_items, orders |-> orders,
     order_comments |-> order_comments, discount_codes |-> discount_codes,
     spin_attempts |-> spin_attempts]

\* what save_data would write now
SavedFile ==
    Snapshot(products, cart_items, orders, order_comments, discount_codes,
             spin_attempts)

\* saving and then loading gives back every entity with every field
C27RoundTrip ==
    /\ load_from(SavedFile) = InMemory
    /\ \A u \in UserIds : object_hook_user(user_to_dict(users[u])) = users[u]

\* a load right after a save changes nothing in memory
C27Step ==
    (Carried /\ last'.op = "reload_data" /\ disk = SavedFile) => UNCHANGED mem

C28NewFile ==
    Snapshot(products, cart_items,
             [orders EXCEPT ![last'.order].status = last'.target],
             order_comments, discount_codes, spin_attempts)

\* C28: when the process stops at any point inside save_data, the next load_data
\* yields the complete previous snapshot or the complete new one, never a
\* partial, empty or corrupt state
C28CrashAtomic ==
    [][(Carried /\ last'.op = "crash_in_save" /\ disk # PartialFile)
       => /\ disk' # PartialFile
          /\ load_data' \in {load_from(disk), load_from(C28NewFile)}]_vars

\* C29: when the snapshot save fails during a status update, update_order_status
\* (and hence _perform_status_update) reports failure to the caller, not success
C29FailureReported ==
    [][(Carried /\ last'.op = "status_update_save_fails")
       => last'.old = "failure"]_vars

\* what an order captured when it was created: unit price and quantity of each
\* line item, subtotal, discount amount and total
Captured(order) ==
    [items |-> [i \in 1..Len(order.items) |->
                   [price |-> order.items[i].price,
                    quantity |-> order.items[i].quantity]],
     subtotal |-> order.subtotal, discount_amount |-> order.discount_amount,
     total_amount |-> order.total_amount]

\* C30: once an order is created, the unit price and quantity of its line items
\* and its subtotal, discount amount and total never change under any later
\* operation (catalogue changes, promotion expiry, product deletion, status
\* transitions, save and load)
C30Theorem ==
    [][\A o \in DOMAIN orders \cap DOMAIN orders' :
           Captured(orders'[o]) = Captured(orders[o])]_vars

\* a discounted order bought at the promotional price has been moved on, saved
\* and loaded again after the promotion ran out, and still shows the
\* promotional price and the discount
C30Witness ==
    /\ last.op = "reload_data"
    /\ \E o \in DOMAIN orders :
           /\ orders[o].status # "pending"
           /\ orders[o].discount_amount > 0
           /\ orders[o].total_amount < orders[o].subtotal
           /\ \E i \in 1..Len(orders[o].items) :
                  LET p == orders[o].items[i].product_id IN
                  /\ p \in DOMAIN products
                  /\ products[p].is_promotional
                  /\ products[p].promotional_end_date[1] <= now
                  /\ orders[o].items[i].price = products[p].promotional_price
                  /\ orders[o].items[i].price < products[p].price

\* the cart requests that set a quantity
CartWrites == {"add_to_cart", "update_cart_quantity"}

\* the cart entries a step creates or changes
C31Changed ==
    {k \in DOMAIN cart_items' :
        k \notin DOMAIN cart_items \/ cart_items'[k] # cart_items[k]}

\* a successful add_to_cart or update_cart_quantity keeps every other entry,
\* and the entry it writes belongs to the user and holds a quantity between 1
\* and the stock of its product
C31Step ==
    (Carried /\ last'.op \in CartWrites)
        => /\ DOMAIN cart_items \subseteq DOMAIN cart_items'
           /\ Cardinality(C31Changed) <= 1
           /\ \A k \in C31Changed :
                  /\ k[1] = last'.user
                  /\ k[2] \in DOMAIN products
                  /\ 1 <= cart_items'[k]
                  /\ cart_items'[k] <= products[k[2]].stock

\* a request for a missing product or for more than the stock leaves the cart
\* as it was
C31Rejected ==
    \/ cart_items' = cart_items
    \/ \A u \in UserIds, p \in ProductIds :
           /\ ((p \notin DOMAIN products
                 \/ (<<u, p>> \in DOMAIN cart_items
                        /\ cart_items[<<u, p>>] + 1 > products[p].stock)
                 \/ (<<u, p>> \notin DOMAIN cart_items /\ 1 > products[p].stock))
                /\ AddToCartRoute(u, p))
               => cart_items' = cart_items
           /\ \A q \in 0..MaxQty :
                  ((p \notin DOMAIN products \/ q > products[p].stock)
                   /\ UpdateCartQuantity(u, p, q))
                      => cart_items' = cart_items

\* C31: there is at most one cart item per (user, product) pair (the cart is a
\* dictionary keyed by the pair); after every successful add_to_cart or
\* update_cart_quantity the item's quantity q satisfies 1 <= q <= stock of the
\* product at that moment; a request that would exceed the stock or names a
\* missing product is rejected and leaves the cart unchanged
C31Theorem == [][C31Step /\ C31Rejected]_vars

\* a customer has raised an item to the whole stock of its product by
\* update_cart_quantity, after an order has taken one unit of that stock
C31Witness ==
    /\ last.op = "update_cart_quantity"
    /\ \E k \in DOMAIN cart_items :
           /\ k[1] = last.user
           /\ k[2] \in DOMAIN products
           /\ products[k[2]].stock = InitStock - 1
           /\ cart_items[k] = products[k[2]].stock

\* the units of product p that the stored orders hold
RECURSIVE C32Ordered(_, _)
C32Ordered(p, os) ==
    IF os = {} THEN 0
    ELSE LET o == CHOOSE x \in os : TRUE
         IN  ordered_quantity(orders[o].items, p) + C32Ordered(p, os \ {o})

\* C32: for any interleaving of two concurrent checkouts by different customers
\* that order the same product, the stock decrement is serialized: the final
\* stock is the initial stock minus the sum of both ordered quantities, and
\* the stock never goes below zero
C32StockSerialized ==
    /\ \A p \in DOMAIN products : products[p].stock >= 0
    /\ (/\ running = NoRequests
        /\ DOMAIN orders = {1, 2}
        /\ orders[1].customer_id # orders[2].customer_id)
           => \A p \in DOMAIN products :
                  products[p].stock = InitStock - C32Ordered(p, DOMAIN orders)

\* the orders of the code's owner that carry a discount
C33Discounted ==
    {o \in DOMAIN orders :
        orders[o].customer_id = "c1" /\ orders[o].discount_amount > 0}

\* C33: for any interleaving of two concurrent checkouts by the code's owner
\* that supply the same unused discount code, validation and use-marking are
\* serialized: at most one of the two orders receives the discount
C33OneDiscount == Cardinality(C33Discounted) <= 1

\* the cart entries of the users other than u
C34OthersCart(u) ==
    [k \in {x \in DOMAIN cart_items : x[1] # u} |-> cart_items[k]]

\* checkout: the new order is pending, the stock of each ordered product is
\* lower by the ordered quantity and the cart is still populated
C34Checkout ==
    (Carried /\ last'.op = "checkout")
        => LET o == last'.order IN
           /\ o \notin DOMAIN orders
           /\ orders'[o].status = "pending"
           /\ orders'[o].customer_id = last'.user
           /\ \A p \in DOMAIN products :
                  products'[p].stock
                      = products[p].stock
                          - (IF <<last'.user, p>> \in DOMAIN cart_items
                             THEN cart_items[<<last'.user, p>>] ELSE 0)
           /\ cart_items' = cart_items
           /\ \E k \in DOMAIN cart_items' : k[1] = last'.user

\* payment: pending becomes receipt_pending and exactly the payer's cart is
\* emptied; a rejected payment leaves cart and status as they were
C34Payment ==
    /\ (Carried /\ last'.op = "checkout_payment")
           => /\ orders[last'.order].status = "pending"
              /\ orders[last'.order].customer_id = last'.user
              /\ orders'[last'.order].status = "receipt_pending"
              /\ cart_items' = C34OthersCart(last'.user)
    /\ \A u \in UserIds, o \in OrderIds :
           CheckoutPayment(u, o, FALSE)
               => cart_items' = cart_items /\ orders' = orders

\* the approvals and the confirmation, in the order of the workflow
C34Approvals ==
    /\ (Carried /\ last'.op = "vendor_approve_receipt")
           => /\ orders[last'.order].status = "receipt_pending"
              /\ \E i \in 1..Len(orders[last'.order].items) :
                     InitProducts[orders[last'.order].items[i].product_id]
                         .vendor_id = last'.user
              /\ orders'[last'.order].status = "admin_review"
    /\ (Carried /\ last'.op = "admin_approve_order"
           /\ orders[last'.order].status = "admin_review")
           => last'.user \in Admins /\ orders'[last'.order].status = "approved"
    /\ (Carried /\ last'.op = "customer_confirm_delivery")
           => /\ orders[last'.order].status = "approved"
              /\ orders[last'.order].customer_id = last'.user
              /\ orders'[last'.order].status = "delivered"
    /\ (Carried /\ last'.op \in StatusRequests \ {"checkout_payment"})
           => cart_items' = cart_items /\ products' = products

\* C34: the workflow: checkout gives a pending order, the stock lowered by the
\* quantity and the cart still populated; the customer's successful payment
\* gives receipt_pending and empties exactly that customer's cart, a rejected
\* payment changes nothing; the owning vendor's approval gives admin_review,
\* the admin's approval approved, the customer's confirmation delivered
C34Theorem == [][C34Checkout /\ C34Payment /\ C34Approvals]_vars

\* c1's order has gone through the whole workflow: it is delivered, the stock of
\* p1 is lower by the ordered quantity, c1's cart is empty and c2's is not
C34Witness ==
    /\ last.op = "customer_confirm_delivery"
    /\ 1 \in DOMAIN orders
    /\ orders[1].status = "delivered"
    /\ orders[1].customer_id = "c1"
    /\ products["p1"].stock = InitStock - orders[1].items[1].quantity
    /\ get_cart_items("c1") = {}
    /\ get_cart_items("c2") # {}

\* a change of the code store adds one record under a key that was free:
\* unused, owned by the caller, with the percentage of the call and an expiry
\* 7 days from now; the codes that existed are as they were
C35Step ==
    discount_codes' # discount_codes
        => \E r \in DOMAIN running, code \in CodePool :
              /\ code \notin DOMAIN discount_codes
              /\ DOMAIN discount_codes' = DOMAIN discount_codes \cup {code}
              /\ \A c \in DOMAIN discount_codes :
                     discount_codes'[c] = discount_codes[c]
              /\ discount_codes'[code].is_used = FALSE
              /\ discount_codes'[code].user_id = running[r].user
              /\ discount_codes'[code].discount_percentage
                     = running[r].discount_percentage
              /\ discount_codes'[code].expires_at = now + 7 * 24 * 60
              /\ r \notin DOMAIN running'

\* a call that is in its loop while a string of the pool is free
C35InLoop ==
    running # NoRequests /\ CodePool \ DOMAIN discount_codes # {}

\* C35: create_discount_code adds exactly one record under a code that was no
\* key of the store, unused, owned by the given user, expiring exactly 7 days
\* after creation, and leaves the existing codes unchanged; its retry loop
\* terminates whenever some unused code remains
C35Theorem ==
    /\ [][C35Step]_vars
    /\ (C35InLoop ~> running = NoRequests)

\* a call made after the clock has advanced has stored its code under the only
\* string that was free, next to the two codes that were there
C35Witness ==
    /\ last.op = "create_discount_code"
    /\ last.target = "C"
    /\ running = NoRequests
    /\ DOMAIN discount_codes = CodePool
    /\ discount_codes["C"].user_id = last.user
    /\ discount_codes["C"].discount_percentage = 50
    /\ ~discount_codes["C"].is_used
    /\ discount_codes["B"].is_used
    /\ now > 0

\* the attempts of user u on record with a timestamp strictly later than
\* now - 5 minutes, in the order of the record
C36Recent(u) ==
    LET later(attempt) == attempt.timestamp > now - 5
    IN  SelectSeq(stored_attempts(u), later)

\* get_user_spin_attempts(u) returns those attempts; the store it leaves holds
\* them for u and what it held for everyone else, and a store that differs
\* from the old one is the one in the data file
C36Function ==
    \A u \in UserIds :
        /\ get_user_spin_attempts(u) = C36Recent(u)
        /\ DOMAIN cleaned_spin_attempts(u) = DOMAIN spin_attempts
        /\ \A v \in DOMAIN spin_attempts :
               cleaned_spin_attempts(u)[v]
                   = IF v = u THEN C36Recent(u) ELSE spin_attempts[v]
        /\ cleaned_spin_attempts(u) # spin_attempts
               => load_from(disk_after_cleanup(u)).spin_attempts
                      = cleaned_spin_attempts(u)

\* a status check that changes the record leaves the user's recent attempts,
\* the other users' lists as they were, and the same lists in the data file
C36Step ==
    (Carried /\ last'.op = "check_spin_status")
        => /\ DOMAIN spin_attempts' = DOMAIN spin_attempts
           /\ \A v \in DOMAIN spin_attempts :
                  spin_attempts'[v]
                      = IF v = last'.user THEN C36Recent(v) ELSE spin_attempts[v]
           /\ load_from(disk').spin_attempts = spin_attempts'

C37Numbers ==
    \A u \in DOMAIN spin_attempts :
        \A i \in 1..Len(spin_attempts[u]) :
            spin_attempts[u][i].spin_number \in 1..3

\* a spin that records an attempt gives it one plus the number of the user's
\* attempts in the 5 minutes before, and the time of the recording
C37Step ==
    (Carried /\ last'.op = "spin_wheel_result" /\ last'.target # "limit")
        => LET u == last'.user
               recorded == spin_attempts'[u][Len(spin_attempts'[u])]
           IN  /\ recorded.spin_number
                      = 1 + Cardinality({i \in 1..Len(stored_attempts(u)) :
                                stored_attempts(u)[i].timestamp > now - 5})
               /\ recorded.timestamp = now
               /\ recorded.user_id = u

\* C37: every recorded spin attempt has a spin number in 1..3, equal to one
\* plus the number of that user's attempts within the trailing 5 minutes at
\* the time of recording
C37Theorem == []C37Numbers /\ [][C37Step]_vars

\* a user's second attempt is still on record and a later attempt, made when
\* the first had left the window, has the number 2 as well
C37Witness ==
    \E u \in DOMAIN spin_attempts :
        /\ Len(spin_attempts[u]) = 2
        /\ spin_attempts[u][1].spin_number = 2
        /\ spin_attempts[u][2].spin_number = 2
        /\ spin_attempts[u][2].timestamp > spin_attempts[u][1].timestamp

\* vendor v's request to move order o to admin_review would be carried out
C38WouldSucceed(v, o) ==
    /\ role_required({"seller"}, v)
    /\ perform_status_update_ok(o, "admin_review", v)

\* C38: in every reachable state an order is in
\* get_orders_pending_vendor_approval(V) if and only if vendor V's request to
\* move it to admin_review would succeed
C38Theorem ==
    \A v \in Vendors, o \in OrderIds :
        o \in get_orders_pending_vendor_approval(v) <=> C38WouldSucceed(v, o)

\* an order waits for the approval of one vendor and not of the other, and a
\* second order of that vendor's product is in another status and in no list
C38Witness ==
    \E v \in Vendors, w \in Vendors, o \in DOMAIN orders, n \in DOMAIN orders :
        /\ o \in get_orders_pending_vendor_approval(v)
        /\ o \notin get_orders_pending_vendor_approval(w)
        /\ n # o
        /\ orders[n].status # "receipt_pending"
        /\ vendor_owns_product_in_order(v, orders[n])
        /\ n \notin get_orders_pending_vendor_approval(v)

\* C39: every order in the order store has at least one line item and every
\* line item has a quantity of at least 1, whatever cart, catalogue (product
\* deletion included) and checkout operations came before
C39OrdersHaveItems ==
    \A o \in DOMAIN orders :
        /\ Len(orders[o].items) >= 1
        /\ \A i \in 1..Len(orders[o].items) : orders[o].items[i].quantity >= 1

====
